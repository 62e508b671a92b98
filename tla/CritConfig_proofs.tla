-------------------------- MODULE CritConfig_proofs --------------------------
(***************************************************************************)
(* For any number of tokens, any time to live and any number of faults,    *)
(* stale reads and failed patches included: a CritConfig keeps the         *)
(* contract of a bootstrap provider.                                       *)
(*                                                                         *)
(* The contract itself is not inductive: the patch of the status stores    *)
(* what the pass has in memory, which comes from the cache or from the     *)
(* creation of the secret.  Backed says that wherever data is reported, in *)
(* the objects, the cache or the pass, there is data, and that a pass      *)
(* never takes the report back.                                            *)
(*                                                                         *)
(* With fresh reads, patches that do not fail and passes that are held up  *)
(* for less than half the time to live, the token of a worker also stays   *)
(* alive until its machine has used it (TokenTheorem): TokenKept relates   *)
(* the token of the data to that of the config and of the pass, and says   *)
(* which pass will refresh it, and that the delay still to be feared does  *)
(* not outlast the token.                                                  *)
(***************************************************************************)
EXTENDS CritConfig, TLAPS

Backed ==
    /\ \/ config.ready \/ configC.ready \/ old.ready \/ my.ready
       \/ owner.dataSecretName \/ ownerC.dataSecretName
       => secret # None
    /\ old.ready => my.ready

IInv == TypeOK /\ Backed

USE ConfigAssumption

-----------------------------------------------------------------------------

\* Data is made from a config, and is something.
LEMMA DataIsData ==
    ASSUME NEW c \in Config
    PROVE  DataOf(c) \in Data /\ DataOf(c) # None
BY DEF DataOf, Data, Config

\* An idle pass has no config in memory, and reports nothing.
LEMMA NoConfigTyped == NoConfig \in Config /\ ~NoConfig.ready
BY DEF NoConfig, Config

\* At the start nothing is reported.
LEMMA InitIInv == Init => IInv
<1> SUFFICES ASSUME Init PROVE IInv
  OBVIOUS
<1>1. PICK t \in UserToken \cup {None}, e \in BOOLEAN :
         config = [token |-> t, endpoint |-> e, ready |-> FALSE]
  BY DEF Init
<1>2. config \in Config /\ ~config.ready
  BY <1>1 DEF Config
<1>3. owner \in Machine /\ ~owner.dataSecretName
  BY DEF Init, Machine
<1>4. role \in {"controlplane", "worker", "pool", "mismatch"}
  BY DEF Init
<1>5. cluster \in [infrastructureReady : BOOLEAN, endpoint : BOOLEAN, initialized : BOOLEAN]
  BY DEF Init
<1>6. /\ expires \in [Token -> 0..(MaxClock + TTL)]
      /\ clock \in 0..MaxClock /\ delay \in 0..MaxDelay
  BY DEF Init
<1>7. TypeOK
  <2>1. config \in Config /\ configC \in Config /\ old \in Config /\ my \in Config
    BY <1>2, NoConfigTyped DEF Init
  <2>2. owner \in Machine /\ ownerC \in Machine
    BY <1>3 DEF Init
  <2>3. secret \in Data \cup {None} /\ due \in {None} \cup 0..(MaxClock + TTL)
    BY DEF Init
  <2>4. queued \in BOOLEAN /\ infraReady \in BOOLEAN /\ pivots \in BOOLEAN
    BY DEF Init
  <2>5. pc \in {"idle", "token", "certs", "store", "patch"}
    BY DEF Init
  <2>6. faults \in 0..MaxFaults
    BY DEF Init
  <2> QED
    BY <1>4, <1>5, <1>6, <2>1, <2>2, <2>3, <2>4, <2>5, <2>6 DEF TypeOK
<1>8. Backed
  BY <1>2, <1>3, NoConfigTyped DEF Init, Backed
<1> QED
  BY <1>7, <1>8 DEF IInv

-----------------------------------------------------------------------------
(* The invariant is kept *)

\* The end of a pass leaves nothing in memory.
LEMMA EndPassKeeps ==
    ASSUME EndPass
    PROVE  /\ pc' = "idle" /\ old' \in Config /\ my' \in Config /\ infraReady' \in BOOLEAN
           /\ ~old'.ready /\ ~my'.ready
BY NoConfigTyped DEF EndPass

\* A pass reports what the cache reports, or what the machine was given.
LEMMA KeepsReconcile == IInv /\ Reconcile => IInv'
<1> SUFFICES ASSUME TypeOK, Backed, Reconcile PROVE TypeOK' /\ Backed'
  BY DEF IInv
<1>0. /\ old' \in Config /\ my' \in Config /\ pc' \in {"idle", "token", "certs", "patch"}
      /\ infraReady' \in BOOLEAN /\ queued' \in BOOLEAN
  <2>1. configC \in Config /\ [configC EXCEPT !.ready = TRUE] \in Config
    BY DEF TypeOK, Config
  <2>2. ClusterConfiguration(configC) \in Config
    BY DEF TypeOK, Config, ClusterConfiguration
  <2>3. ownerC.infraReady \in BOOLEAN
    BY DEF TypeOK, Machine
  <2> QED
    BY <2>1, <2>2, <2>3 DEF TypeOK, Reconcile, pass
<1>1. TypeOK'
  BY <1>0 DEF TypeOK, Reconcile, stored, caches
<1>2. Backed'
  <2>1. CASE UNCHANGED pass
    BY <2>1 DEF Backed, Reconcile, stored, caches, pass
  <2>2. CASE /\ old' = configC /\ my' = [configC EXCEPT !.ready = TRUE]
             /\ ownerC.dataSecretName
    BY <2>2 DEF TypeOK, Backed, Reconcile, stored, caches, Config
  <2>3. CASE old' = configC /\ my' = ClusterConfiguration(configC)
    <3>1. my'.ready = configC.ready
      BY <2>3 DEF TypeOK, ClusterConfiguration, Config
    <3> QED
      BY <2>3, <3>1 DEF Backed, Reconcile, stored, caches
  <2> QED
    BY <2>1, <2>2, <2>3 DEF Reconcile, pass
<1> QED
  BY <1>1, <1>2

\* A token created, recorded or not, lives within the bounds; nothing is reported.
LEMMA KeepsCreateToken == IInv /\ CreateToken => IInv'
<1> SUFFICES ASSUME TypeOK, Backed, CreateToken PROVE TypeOK' /\ Backed'
  BY DEF IInv
<1>0. /\ old' \in Config /\ my' \in Config /\ pc' \in {"idle", "certs"}
      /\ infraReady' \in BOOLEAN /\ queued' \in BOOLEAN /\ faults' \in 0..MaxFaults
      /\ expires' \in [Token -> 0..(MaxClock + TTL)]
  <2>1. clock + TTL \in 0..(MaxClock + TTL)
    BY DEF TypeOK
  <2>2. CASE my.token # None /\ UNCHANGED <<expires, my, old, infraReady, queued, faults>>
             /\ pc' = "certs"
    BY <2>2 DEF TypeOK
  <2>3. ASSUME NEW t \in Token, expires' = [expires EXCEPT ![t] = clock + TTL],
               my' = [my EXCEPT !.token = t], pc' = "certs",
               UNCHANGED <<old, infraReady, queued, faults>>
        PROVE  <1>0!:
    BY <2>1, <2>3 DEF TypeOK, Config
  <2>4. ASSUME NEW t \in Token, expires' = [expires EXCEPT ![t] = clock + TTL],
               Fails, ReturnError
        PROVE  <1>0!:
    BY <2>1, <2>4, EndPassKeeps DEF TypeOK, Fails, ReturnError
  <2>5. CASE Fails /\ ReturnError /\ UNCHANGED expires
    BY <2>5, EndPassKeeps DEF TypeOK, Fails, ReturnError
  <2> QED
    BY <2>2, <2>3, <2>4, <2>5 DEF CreateToken
<1>1. TypeOK'
  BY <1>0 DEF TypeOK, CreateToken, stored, caches
<1>2. Backed'
  BY EndPassKeeps, SMTT(30) DEF TypeOK, Backed, CreateToken, Fails, ReturnError, Config, stored, caches, pass
<1> QED
  BY <1>1, <1>2

\* So does a token refreshed.
LEMMA KeepsRefreshToken == IInv /\ RefreshToken => IInv'
<1> SUFFICES ASSUME TypeOK, Backed, RefreshToken PROVE TypeOK' /\ Backed'
  BY DEF IInv
<1>0. /\ old' \in Config /\ my' \in Config /\ pc' \in {"idle", "certs", "patch"}
      /\ infraReady' \in BOOLEAN /\ queued' \in BOOLEAN /\ faults' \in 0..MaxFaults
      /\ expires' \in [Token -> 0..(MaxClock + TTL)]
      /\ due' \in {None} \cup 0..(MaxClock + TTL) /\ delay' \in 0..MaxDelay
  <2>1. CASE UNCHANGED <<expires, due, delay, old, my, infraReady, queued, faults>> /\ pc' = "certs"
    BY <2>1 DEF TypeOK
  <2>2. CASE /\ my.token # None
             /\ expires' = [expires EXCEPT ![my.token] = NewExpiration(my.token)]
             /\ due' = IF due = None THEN clock + RefreshAfter ELSE due
             /\ delay' = MaxDelay /\ pc' = "patch"
             /\ UNCHANGED <<old, my, infraReady, queued, faults>>
    <3>1. NewExpiration(my.token) \in 0..(MaxClock + TTL)
      BY DEF TypeOK, NewExpiration
    <3>2. clock + RefreshAfter \in 0..(MaxClock + TTL)
      BY DEF TypeOK, RefreshAfter
    <3>3. delay' \in 0..MaxDelay
      BY <2>2
    <3>4. expires' \in [Token -> 0..(MaxClock + TTL)]
      BY <2>2, <3>1 DEF TypeOK
    <3>5. due' \in {None} \cup 0..(MaxClock + TTL)
      BY <2>2, <3>2 DEF TypeOK
    <3> QED
      BY <2>2, <3>3, <3>4, <3>5 DEF TypeOK
  <2>3. CASE ReturnError /\ UNCHANGED <<expires, due, delay, faults>>
    BY <2>3, EndPassKeeps DEF TypeOK, ReturnError
  <2>4. CASE Fails /\ ReturnError /\ UNCHANGED <<expires, due, delay>>
    BY <2>4, EndPassKeeps DEF TypeOK, Fails, ReturnError
  <2> QED
    BY <2>1, <2>2, <2>3, <2>4 DEF RefreshToken
<1>1. TypeOK'
  BY <1>0 DEF TypeOK, RefreshToken, stored, caches
<1>2. Backed'
  BY EndPassKeeps, SMTT(30) DEF TypeOK, Backed, RefreshToken, Fails, ReturnError, NewExpiration, RefreshAfter, Config, stored, caches, pass
<1> QED
  BY <1>1, <1>2

\* The certificates change nothing that is reported.
LEMMA KeepsCertificates == IInv /\ Certificates => IInv'
<1> SUFFICES ASSUME TypeOK, Backed, Certificates PROVE TypeOK' /\ Backed'
  BY DEF IInv
<1>0. /\ old' \in Config /\ my' \in Config /\ pc' \in {"idle", "store"}
      /\ infraReady' \in BOOLEAN /\ queued' \in BOOLEAN /\ faults' \in 0..MaxFaults
  <2>1. CASE pc' = "store" /\ UNCHANGED <<old, my, infraReady, queued, faults>>
    BY <2>1 DEF TypeOK
  <2>2. CASE Fails /\ ReturnError
    BY <2>2, EndPassKeeps DEF TypeOK, Fails, ReturnError
  <2> QED
    BY <2>1, <2>2 DEF Certificates
<1>1. TypeOK'
  BY <1>0 DEF TypeOK, Certificates, stored, caches
<1>2. Backed'
  BY EndPassKeeps, SMTT(30) DEF TypeOK, Backed, Certificates, Fails, ReturnError, stored, caches, pass
<1> QED
  BY <1>1, <1>2

\* The data is stored before the pass reports it.
LEMMA KeepsStoreBootstrapData == IInv /\ StoreBootstrapData => IInv'
<1> SUFFICES ASSUME TypeOK, Backed, StoreBootstrapData PROVE TypeOK' /\ Backed'
  BY DEF IInv
<1>0. /\ old' \in Config /\ my' \in Config /\ pc' \in {"idle", "patch"}
      /\ infraReady' \in BOOLEAN /\ queued' \in BOOLEAN /\ faults' \in 0..MaxFaults
      /\ secret' \in Data \cup {None}
  <2>1. DataOf(my) \in Data
    BY DataIsData DEF TypeOK
  <2>2. CASE /\ secret' = DataOf(my) /\ my' = [my EXCEPT !.ready = TRUE] /\ pc' = "patch"
             /\ UNCHANGED <<old, infraReady, queued, faults>>
    BY <2>1, <2>2 DEF TypeOK, Config
  <2>3. CASE pc' = "patch" /\ UNCHANGED <<secret, my, old, infraReady, queued, faults>>
    BY <2>3 DEF TypeOK
  <2>4. CASE Fails /\ ReturnError /\ (UNCHANGED secret \/ secret' = DataOf(my))
    BY <2>1, <2>4, EndPassKeeps DEF TypeOK, Fails, ReturnError
  <2> QED
    BY <2>2, <2>3, <2>4 DEF StoreBootstrapData
<1>1. TypeOK'
  BY <1>0 DEF TypeOK, StoreBootstrapData, caches
<1>2. Backed'
  BY EndPassKeeps, DataIsData, SMTT(30) DEF TypeOK, Backed, StoreBootstrapData, Fails, ReturnError, Config, stored, caches, pass
<1> QED
  BY <1>1, <1>2

\* Either half of the patch, or both, stores a report that is backed.
LEMMA KeepsPatch == IInv /\ Patch => IInv'
<1> SUFFICES ASSUME TypeOK, Backed, Patch PROVE TypeOK' /\ Backed'
  BY DEF IInv
<1>1. TypeOK'
  BY EndPassKeeps, SMTT(30) DEF TypeOK, Patch, Config, stored, caches, pass
<1>2. Backed'
  BY EndPassKeeps, SMTT(30) DEF TypeOK, Backed, Patch, Config, stored, caches, pass
<1> QED
  BY <1>1, <1>2

\* A restart forgets the pass.
LEMMA KeepsCrash == IInv /\ Crash => IInv'
<1> SUFFICES ASSUME TypeOK, Backed, Crash PROVE TypeOK' /\ Backed'
  BY DEF IInv
<1>1. TypeOK'
  BY EndPassKeeps, SMTT(30) DEF TypeOK, Crash, Restart, Fails, stored, caches, pass
<1>2. Backed'
  BY EndPassKeeps, SMTT(30) DEF TypeOK, Backed, Crash, Restart, Fails, stored, caches, pass
<1> QED
  BY <1>1, <1>2

\* The cache gets the report of the config.
LEMMA KeepsSyncConfig == IInv /\ SyncConfig => IInv'
<1> SUFFICES ASSUME TypeOK, Backed, SyncConfig PROVE TypeOK' /\ Backed'
  BY DEF IInv
<1>1. TypeOK'
  BY SMTT(30) DEF TypeOK, SyncConfig, stored, caches, pass
<1>2. Backed'
  BY SMTT(30) DEF TypeOK, Backed, SyncConfig, stored, caches, pass
<1> QED
  BY <1>1, <1>2

\* The cache gets what the machine was given.
LEMMA KeepsSyncMachine == IInv /\ SyncMachine => IInv'
<1> SUFFICES ASSUME TypeOK, Backed, SyncMachine PROVE TypeOK' /\ Backed'
  BY DEF IInv
<1>1. TypeOK'
  BY SMTT(30) DEF TypeOK, SyncMachine, stored, caches, pass
<1>2. Backed'
  BY SMTT(30) DEF TypeOK, Backed, SyncMachine, stored, caches, pass
<1> QED
  BY <1>1, <1>2

\* The queue reports nothing.
LEMMA KeepsRequeue == IInv /\ Requeue => IInv'
<1> SUFFICES ASSUME TypeOK, Backed, Requeue PROVE TypeOK' /\ Backed'
  BY DEF IInv
<1>1. TypeOK'
  BY SMTT(30) DEF TypeOK, Requeue, stored, caches, pass
<1>2. Backed'
  BY SMTT(30) DEF TypeOK, Backed, Requeue, stored, caches, pass
<1> QED
  BY <1>1, <1>2

\* Nor does a resync.
LEMMA KeepsResync == IInv /\ Resync => IInv'
<1> SUFFICES ASSUME TypeOK, Backed, Resync PROVE TypeOK' /\ Backed'
  BY DEF IInv
<1>1. TypeOK'
  BY SMTT(30) DEF TypeOK, Resync, stored, caches, pass
<1>2. Backed'
  BY SMTT(30) DEF TypeOK, Backed, Resync, stored, caches, pass
<1> QED
  BY <1>1, <1>2

\* Time stays within its bound.
LEMMA KeepsTick == IInv /\ Tick => IInv'
<1> SUFFICES ASSUME TypeOK, Backed, Tick PROVE TypeOK' /\ Backed'
  BY DEF IInv
<1>1. TypeOK'
  BY SMTT(30) DEF TypeOK, Tick, stored, caches, pass
<1>2. Backed'
  BY SMTT(30) DEF TypeOK, Backed, Tick, stored, caches, pass
<1> QED
  BY <1>1, <1>2

\* The cluster reports nothing of the data.
LEMMA KeepsClusterProgress == IInv /\ ClusterProgress => IInv'
<1> SUFFICES ASSUME TypeOK, Backed, ClusterProgress PROVE TypeOK' /\ Backed'
  BY DEF IInv
<1>0. cluster' \in [infrastructureReady : BOOLEAN, endpoint : BOOLEAN, initialized : BOOLEAN]
  BY DEF TypeOK, ClusterProgress
<1>1. TypeOK'
  BY <1>0 DEF TypeOK, ClusterProgress, caches, pass
<1>2. Backed'
  BY SMTT(30) DEF TypeOK, Backed, ClusterProgress, stored, caches, pass
<1> QED
  BY <1>1, <1>2

\* The machine is given what the config reports.
LEMMA KeepsMachineProgress == IInv /\ MachineProgress => IInv'
<1> SUFFICES ASSUME TypeOK, Backed, MachineProgress PROVE TypeOK' /\ Backed'
  BY DEF IInv
<1>0. owner' \in Machine
  BY DEF TypeOK, MachineProgress, Machine
<1>1. TypeOK'
  BY <1>0 DEF TypeOK, MachineProgress, caches, pass
<1>2. Backed'
  BY SMTT(30) DEF TypeOK, Backed, MachineProgress, Machine, stored, caches, pass
<1> QED
  BY <1>1, <1>2

\* A move takes the report back.
LEMMA KeepsPivot == IInv /\ Pivot => IInv'
<1> SUFFICES ASSUME TypeOK, Backed, Pivot PROVE TypeOK' /\ Backed'
  BY DEF IInv
<1>0. config' \in Config
  BY DEF TypeOK, Pivot, Config
<1>1. TypeOK'
  BY <1>0 DEF TypeOK, Pivot, pass
<1>2. Backed'
  BY SMTT(30) DEF TypeOK, Backed, Pivot, Config, stored, caches, pass
<1> QED
  BY <1>1, <1>2

\* Every step keeps the invariant.
LEMMA Inductive == IInv /\ [Next]_vars => IInv'
<1> SUFFICES ASSUME IInv, [Next]_vars PROVE IInv'
  OBVIOUS
<1>1. CASE Pass
  BY <1>1, KeepsReconcile, KeepsCreateToken, KeepsRefreshToken, KeepsCertificates,
     KeepsStoreBootstrapData, KeepsPatch DEF Pass
<1>2. CASE Crash \/ SyncConfig \/ SyncMachine \/ Requeue \/ Resync \/ Tick
  BY <1>2, KeepsCrash, KeepsSyncConfig, KeepsSyncMachine, KeepsRequeue, KeepsResync, KeepsTick
<1>3. CASE ClusterProgress \/ MachineProgress \/ Pivot
  BY <1>3, KeepsClusterProgress, KeepsMachineProgress, KeepsPivot
<1>4. CASE UNCHANGED vars
  BY <1>4 DEF IInv, TypeOK, Backed, vars, stored, caches, pass
<1> QED
  BY <1>1, <1>2, <1>3, <1>4 DEF Next

-----------------------------------------------------------------------------
(* Theorems *)

\* Every variable keeps its type: no deadline leaves the range that MaxClock and TTL give.
THEOREM TypeCorrect == Spec => []TypeOK
<1>1. Init => IInv
  BY InitIInv
<1>2. IInv /\ [Next]_vars => IInv'
  BY Inductive
<1>3. IInv => TypeOK
  BY DEF IInv
<1> QED
  BY <1>1, <1>2, <1>3, PTL DEF Spec

\* The initial states are initial states of the contract.
LEMMA ContractInit == Init => Contract!Init
BY DEF Init, Contract!Init

\* A step of the controller or of its surroundings is a step of the contract, or none.
LEMMA ContractStep == IInv /\ [Next]_vars => [Contract!Next]_(Contract!contract)
<1> SUFFICES ASSUME IInv, [Next]_vars PROVE [Contract!Next]_(Contract!contract)
  OBVIOUS
<1> USE DEF Contract!contract
<1>1. CASE Reconcile \/ CreateToken \/ RefreshToken \/ Certificates
  BY <1>1 DEF Reconcile, CreateToken, RefreshToken, Certificates, stored
<1>2. CASE StoreBootstrapData
  <2>1. UNCHANGED <<config, owner>>
    BY <1>2 DEF StoreBootstrapData
  <2>2. CASE UNCHANGED secret
    BY <2>1, <2>2
  <2>3. CASE secret = None /\ secret' = DataOf(my)
    BY <2>1, <2>3, DataIsData DEF IInv, TypeOK, Contract!Next, Contract!Publish
  <2> QED
    BY <1>2, <2>2, <2>3 DEF StoreBootstrapData
<1>3. CASE Patch
  <2>1. UNCHANGED <<secret, owner>>
    BY <1>3 DEF Patch
  <2>2. config'.ready = config.ready \/ (my.ready # old.ready /\ config'.ready = my.ready)
    BY <1>3 DEF Patch
  <2>3. config'.ready = config.ready \/ (my.ready /\ config'.ready = TRUE)
    BY <2>2 DEF IInv, Backed, TypeOK, Config
  <2>4. my.ready => secret # None
    BY DEF IInv, Backed
  <2> QED
    BY <2>1, <2>3, <2>4 DEF Contract!Next, Contract!Announce
<1>4. CASE Crash \/ SyncConfig \/ SyncMachine \/ Requeue \/ Resync \/ Tick \/ ClusterProgress
  BY <1>4 DEF Crash, SyncConfig, SyncMachine, Requeue, Resync, Tick, ClusterProgress, stored
<1>5. CASE MachineProgress
  <2>1. UNCHANGED <<secret, config>>
    BY <1>5 DEF MachineProgress
  <2>2. \/ owner'.dataSecretName = owner.dataSecretName
        \/ config.ready /\ owner'.dataSecretName = TRUE
    BY <1>5 DEF MachineProgress, IInv, TypeOK, Machine
  <2> QED
    BY <2>1, <2>2 DEF Contract!Next, Contract!Give
<1>6. CASE Pivot
  <2>1. UNCHANGED <<secret, owner>> /\ config'.ready = FALSE
    BY <1>6 DEF Pivot, IInv, TypeOK, Config
  <2> QED
    BY <2>1 DEF Contract!Next, Contract!Forget
<1>7. CASE UNCHANGED vars
  BY <1>7 DEF vars, stored
<1> QED
  BY <1>1, <1>2, <1>3, <1>4, <1>5, <1>6, <1>7 DEF Next, Pass

\* Whatever fails and however often a pass is repeated, on fresh or stale reads and
\* with a patch of which only half succeeds, the machine sees data that is published
\* once and announced after that.
THEOREM ContractKept == Spec => ImplementsContract
<1>1. Init => IInv /\ Contract!Init
  BY InitIInv, ContractInit
<1>2. IInv /\ [Next]_vars => IInv'
  BY Inductive
<1>3. IInv /\ [Next]_vars => [Contract!Next]_(Contract!contract)
  BY ContractStep
<1> QED
  BY <1>1, <1>2, <1>3, PTL DEF Spec, ImplementsContract, Contract!Spec

-----------------------------------------------------------------------------
(* The bootstrap token.  TokenAlive depends on the past of the token (who put  *)
(* it into the config and the data), on what is scheduled before it expires,   *)
(* and on what the pass that is running will still do.                         *)

\* Some node still has to join with the token in the data.
Unused ==
    /\ secret # None /\ secret.token # None
    /\ ~owner.infraReady /\ (config.ready \/ owner.dataSecretName)

\* The machine only progresses, the cache lags behind; data is made once machine and
\* cluster are ready, and only for a worker does it hold a token.
Surroundings ==
    /\ \A f \in {"ownsConfig", "dataSecretName", "infraReady"} : ownerC[f] => owner[f]
    /\ secret # None => owner.ownsConfig /\ cluster.infrastructureReady
    /\ ~WorkerConfig =>
          config.token = None /\ my.token = None /\ (secret # None => secret.token = None)
    /\ pc = "token" => WorkerConfig
    /\ pc = "idle" => ~infraReady

\* The config that is reported has the token of the data, and until there is data it
\* has only a token of the user's.
SameToken ==
    /\ config.ready \/ owner.dataSecretName => secret.token = config.token
    /\ secret = None /\ config.token # None => expires[config.token] > MaxClock + MaxDelay

\* What the pass has in memory, against what is stored.
PassKnows ==
    pc # "idle" =>
        /\ configC = config /\ old = config
        /\ owner.ownsConfig /\ cluster.infrastructureReady
        /\ infraReady => owner.infraReady
        /\ config.ready => my.token = config.token
        /\ pc # "patch" => my.ready = config.ready
        /\ pc # "patch" /\ ~config.ready => ~owner.dataSecretName
        /\ pc = "patch" /\ my.ready => secret.token = my.token
        /\ pc = "patch" /\ owner.dataSecretName => my.ready
        /\ pc = "patch" => secret # None
        /\ secret = None /\ my.token # None => expires[my.token] > clock + delay
        /\ pc = "patch" /\ my.ready /\ ~config.ready /\ my.token # None /\ ~owner.infraReady =>
              expires[my.token] > clock + delay

\* A delayed pass comes within half the time to live.
DueSoon == due # None => due <= clock + RefreshAfter

\* The token is alive, and before it expires there will be a pass to refresh it, be it
\* held up for as long as it may: one that waits for its time, one that is queued or
\* will be by an event that is on its way, or the one that is running.
RefreshComes ==
    Unused =>
        /\ expires[secret.token] > clock + delay
        /\ \/ due # None /\ due + delay < expires[secret.token]
           \/ queued \/ ~Fresh
           \/ pc = "token" \/ (pc = "patch" /\ ~config.ready)

TokenKept == Surroundings /\ SameToken /\ PassKnows /\ DueSoon /\ RefreshComes

\* What the token depends on: fresh reads, patches that succeed, and delays shorter than
\* what a refresh leaves of the time to live when the next one is due.
Timely == FreshReads /\ ~PatchFaults /\ MaxDelay < TTL - RefreshAfter

\* The shape of what the actions change.
LEMMA Shapes ==
    ASSUME IInv
    PROVE  /\ config \in Config /\ configC \in Config /\ old \in Config /\ my \in Config
           /\ owner \in Machine /\ ownerC \in Machine
           /\ clock \in Nat /\ clock <= MaxClock /\ delay \in Nat /\ delay <= MaxDelay
           /\ expires \in [Token -> Nat]
           /\ due # None => due \in Nat
           /\ secret # None => secret.token \in Token \cup {None}
           /\ RefreshAfter \in Nat /\ RefreshAfter >= 1 /\ RefreshAfter < TTL
BY DEF IInv, TypeOK, Data, RefreshAfter

\* The pass starts with what is stored: its token is that of the config, and a restore
\* finds the token of the data alive.
LEMMA TokenReconcile ==
    ASSUME Timely, IInv, TokenKept, Reconcile
    PROVE  TokenKept'
<1> USE Shapes DEF TokenKept, Timely
<1>1. Surroundings'
  <2>0. UNCHANGED <<role, config, owner, ownerC, cluster, secret>> /\ pc = "idle"
    BY DEF Reconcile, stored, caches
  <2>1. CASE UNCHANGED pass
    BY <2>0, <2>1 DEF Surroundings, WorkerConfig, pass
  <2>2. CASE pc' = "patch" /\ my' = [configC EXCEPT !.ready = TRUE]
    <3>1. my'.token = config.token
      BY <2>2 DEF Reconcile, Fresh, Config
    <3> QED BY <2>0, <2>2, <3>1 DEF Surroundings, WorkerConfig
  <2>3. CASE /\ pc' = IF WorkerConfig THEN "token" ELSE "certs"
             /\ my' = ClusterConfiguration(configC)
    <3>1. my'.token = config.token
      BY <2>3 DEF Reconcile, Fresh, Config, ClusterConfiguration
    <3> QED BY <2>0, <2>3, <3>1 DEF Surroundings, WorkerConfig
  <2> QED BY <2>1, <2>2, <2>3 DEF Reconcile
<1>2. SameToken'
  BY DEF SameToken, Reconcile, stored
<1>3. PassKnows'
  <2>0. /\ configC = config /\ ownerC = owner /\ pc = "idle"
        /\ UNCHANGED <<stored, caches, expires, clock, delay>>
    BY DEF Reconcile, Fresh
  <2>1. CASE UNCHANGED pass
    BY <2>0, <2>1 DEF PassKnows, pass
  <2>2. CASE /\ ownerC.ownsConfig /\ cluster.infrastructureReady /\ ownerC.dataSecretName
             /\ ~configC.ready /\ old' = configC /\ my' = [configC EXCEPT !.ready = TRUE]
             /\ pc' = "patch" /\ UNCHANGED infraReady
    <3>1. my'.ready = TRUE /\ my'.token = config.token
      BY <2>0, <2>2 DEF Config
    <3>2. secret # None /\ secret.token = config.token
      BY <2>0, <2>2 DEF IInv, Backed, SameToken
    <3>3. config.token # None /\ ~owner.infraReady => expires[config.token] > clock + delay
      BY <2>0, <2>2, <3>2 DEF RefreshComes, Unused
    <3>4. UNCHANGED <<config, configC, owner, cluster, secret, expires, clock, delay>>
      BY <2>0 DEF stored, caches
    <3>5. infraReady => owner.infraReady
      BY <2>0 DEF Surroundings
    <3> QED BY <2>0, <2>2, <3>1, <3>2, <3>3, <3>4, <3>5 DEF PassKnows
  <2>3. CASE /\ ownerC.ownsConfig /\ cluster.infrastructureReady
             /\ ~(ownerC.dataSecretName /\ ~configC.ready)
             /\ old' = configC /\ my' = ClusterConfiguration(configC)
             /\ infraReady' = ownerC.infraReady /\ pc' \in {"token", "certs"}
    <3>1. my'.ready = config.ready /\ my'.token = config.token
      BY <2>0, <2>3 DEF Config, ClusterConfiguration
    <3>4. UNCHANGED <<config, configC, owner, cluster, secret, expires, clock, delay>>
      BY <2>0 DEF stored, caches
    <3>5. secret = None /\ config.token # None => expires[config.token] > clock + delay
      <4>1. secret = None /\ config.token # None => config.token \in Token
        BY DEF Config
      <4> QED BY <4>1 DEF SameToken
    <3> QED BY <2>0, <2>3, <3>1, <3>4, <3>5 DEF PassKnows
  <2> QED BY <2>1, <2>2, <2>3 DEF Reconcile
<1>4. DueSoon'
  BY DEF DueSoon, Reconcile
<1>5. RefreshComes'
  BY DEF Surroundings, RefreshComes, Unused, Reconcile, Fresh, stored
<1> QED BY <1>1, <1>2, <1>3, <1>4, <1>5

\* A token is created only while there is no data: no machine depends on it yet.
LEMMA TokenCreateToken ==
    ASSUME Timely, IInv, TokenKept, CreateToken
    PROVE  TokenKept'
<1> USE Shapes DEF TokenKept, Timely
<1>1. Surroundings'
  BY DEF Surroundings, CreateToken, ReturnError, stored, caches, EndPass, WorkerConfig
<1>2. SameToken'
  BY DEF SameToken, CreateToken, stored, Config
<1>3. PassKnows'
  BY DEF PassKnows, CreateToken, ReturnError, stored, caches, EndPass, Config
<1>4. DueSoon'
  BY DEF DueSoon, CreateToken
<1>5. RefreshComes'
  BY DEF PassKnows, RefreshComes, Unused, CreateToken, stored
<1> QED BY <1>1, <1>2, <1>3, <1>4, <1>5

\* The refresh renews the very token of the data, and asks for a pass before it expires.
LEMMA TokenRefreshToken ==
    ASSUME Timely, IInv, TokenKept, RefreshToken
    PROVE  TokenKept'
<1> USE Shapes DEF TokenKept, Timely
<1>1. Surroundings'
  BY DEF Surroundings, RefreshToken, ReturnError, stored, caches, EndPass, WorkerConfig
<1>2. SameToken'
  BY DEF IInv, Backed, SameToken, RefreshToken, stored
<1>3. PassKnows'
  BY DEF IInv, Backed, SameToken, PassKnows, RefreshToken, ReturnError, stored, caches, EndPass
<1>4. DueSoon'
  BY DEF DueSoon, RefreshToken
<1>5. RefreshComes'
  BY DEF SameToken, PassKnows, DueSoon, RefreshComes, Unused, RefreshToken, NewExpiration,
     ReturnError, stored
<1> QED BY <1>1, <1>2, <1>3, <1>4, <1>5

\* A failure of the certificates queues the config again.
LEMMA TokenCertificates ==
    ASSUME Timely, IInv, TokenKept, Certificates
    PROVE  TokenKept'
<1> USE Shapes DEF TokenKept, Timely
<1>1. Surroundings'
  BY DEF Surroundings, Certificates, ReturnError, stored, caches, EndPass, NoConfig,
     WorkerConfig
<1>2. SameToken'
  BY DEF SameToken, Certificates, stored
<1>3. PassKnows'
  BY DEF PassKnows, Certificates, ReturnError, stored, caches, EndPass
<1>4. DueSoon'
  BY DEF DueSoon, Certificates
<1>5. RefreshComes'
  BY DEF RefreshComes, Unused, Certificates, ReturnError, stored, caches, Fresh
<1> QED BY <1>1, <1>2, <1>3, <1>4, <1>5

\* The data gets the token the pass holds, alive because it was created or found alive in
\* the same instant; of data that exists the pass has the token or does not report it.
LEMMA TokenStoreBootstrapData ==
    ASSUME Timely, IInv, TokenKept, StoreBootstrapData
    PROVE  TokenKept'
<1> USE Shapes DEF TokenKept, Timely
<1>1. Surroundings'
  BY DEF Surroundings, PassKnows, StoreBootstrapData, DataOf, ReturnError, caches, EndPass,
     NoConfig, WorkerConfig, Config
<1>2. SameToken'
  BY DEF SameToken, PassKnows, StoreBootstrapData, DataOf
<1>3. PassKnows'
  <2>0. /\ pc = "store" /\ my.ready = config.ready /\ (config.ready => secret # None)
        /\ UNCHANGED <<config, configC, owner, cluster, expires, clock, delay>>
    BY DEF StoreBootstrapData, IInv, Backed, PassKnows, caches
  <2>1. CASE /\ secret = None /\ secret' = DataOf(my) /\ my' = [my EXCEPT !.ready = TRUE]
             /\ pc' = "patch" /\ UNCHANGED <<old, infraReady>>
    <3>1. secret' # None /\ secret'.token = my.token /\ my'.token = my.token /\ my'.ready = TRUE
      BY <2>1, DataIsData DEF DataOf, Config
    <3> QED BY <2>0, <2>1, <3>1 DEF PassKnows
  <2>2. CASE secret # None /\ pc' = "patch" /\ UNCHANGED <<secret, my, old, infraReady>>
    <3>1. my.ready => secret.token = my.token
      BY <2>0 DEF PassKnows, SameToken
    <3> QED BY <2>0, <2>2, <3>1 DEF PassKnows
  <2>3. CASE EndPass
    BY <2>3 DEF EndPass, PassKnows
  <2> QED BY <2>1, <2>2, <2>3 DEF StoreBootstrapData, ReturnError
<1>4. DueSoon'
  BY DEF DueSoon, StoreBootstrapData, DataOf
<1>5. RefreshComes'
  BY DEF IInv, Backed, RefreshComes, Unused, StoreBootstrapData, DataOf, ReturnError, caches,
     Fresh
<1> QED BY <1>1, <1>2, <1>3, <1>4, <1>5

\* The patch, which does not fail, reports the data together with its token, and the
\* event it causes is on its way.
LEMMA TokenPatch ==
    ASSUME Timely, IInv, TokenKept, Patch
    PROVE  TokenKept'
<1> USE Shapes DEF TokenKept, Timely
<1>1. Surroundings'
  BY DEF Surroundings, Patch, DataOf, EndPass, caches, NoConfig, WorkerConfig
<1>2. SameToken'
  BY DEF SameToken, PassKnows, Patch, DataOf
<1>3. PassKnows'
  BY DEF PassKnows, Patch, DataOf, EndPass
<1>4. DueSoon'
  BY DEF DueSoon, Patch, DataOf
<1>5. RefreshComes'
  BY DEF PassKnows, RefreshComes, Unused, Patch, DataOf, caches, Fresh, Machine
<1> QED BY <1>1, <1>2, <1>3, <1>4, <1>5

\* A restart forgets the delayed pass and queues the config instead.
LEMMA TokenCrash ==
    ASSUME Timely, IInv, TokenKept, Crash
    PROVE  TokenKept'
<1> USE Shapes DEF TokenKept, Timely
<1>1. Surroundings'
  BY DEF Surroundings, Crash, Restart, stored, EndPass, NoConfig, WorkerConfig
<1>2. SameToken'
  BY DEF SameToken, Crash, Restart, stored
<1>3. PassKnows'
  BY DEF PassKnows, Crash, Restart, EndPass
<1>4. DueSoon'
  BY DEF DueSoon, Crash, Restart
<1>5. RefreshComes'
  BY DEF RefreshComes, Unused, Crash, Restart, stored
<1> QED BY <1>1, <1>2, <1>3, <1>4, <1>5

\* The event of the config queues it.
LEMMA TokenSyncConfig ==
    ASSUME Timely, IInv, TokenKept, SyncConfig
    PROVE  TokenKept'
<1> USE Shapes DEF TokenKept, Timely
<1>1. Surroundings'
  BY DEF Surroundings, SyncConfig, stored, pass, WorkerConfig
<1>2. SameToken'
  BY DEF SameToken, SyncConfig, stored
<1>3. PassKnows'
  BY DEF PassKnows, SyncConfig, pass
<1>4. DueSoon'
  BY DEF DueSoon, SyncConfig
<1>5. RefreshComes'
  BY DEF RefreshComes, Unused, SyncConfig, stored
<1> QED BY <1>1, <1>2, <1>3, <1>4, <1>5

\* The event of the machine queues the config.
LEMMA TokenSyncMachine ==
    ASSUME Timely, IInv, TokenKept, SyncMachine
    PROVE  TokenKept'
<1> USE Shapes DEF TokenKept, Timely
<1>1. Surroundings'
  BY DEF Surroundings, SyncMachine, stored, pass, WorkerConfig
<1>2. SameToken'
  BY DEF SameToken, SyncMachine, stored
<1>3. PassKnows'
  BY DEF PassKnows, SyncMachine, stored, pass
<1>4. DueSoon'
  BY DEF DueSoon, SyncMachine
<1>5. RefreshComes'
  BY DEF RefreshComes, Unused, SyncMachine, stored
<1> QED BY <1>1, <1>2, <1>3, <1>4, <1>5

\* The delayed pass is due: it is queued instead.
LEMMA TokenRequeue ==
    ASSUME Timely, IInv, TokenKept, Requeue
    PROVE  TokenKept'
<1> USE Shapes DEF TokenKept, Timely
<1>1. Surroundings'
  BY DEF Surroundings, Requeue, stored, caches, pass, WorkerConfig
<1>2. SameToken'
  BY DEF SameToken, Requeue, stored
<1>3. PassKnows'
  BY DEF PassKnows, Requeue, stored, caches, pass
<1>4. DueSoon'
  BY DEF DueSoon, Requeue
<1>5. RefreshComes'
  BY DEF RefreshComes, Unused, Requeue, stored
<1> QED BY <1>1, <1>2, <1>3, <1>4, <1>5

\* An event more.
LEMMA TokenResync ==
    ASSUME Timely, IInv, TokenKept, Resync
    PROVE  TokenKept'
<1> USE Shapes DEF TokenKept, Timely
<1>1. Surroundings'
  BY DEF Surroundings, Resync, stored, caches, pass, WorkerConfig
<1>2. SameToken'
  BY DEF SameToken, Resync, stored
<1>3. PassKnows'
  BY DEF PassKnows, Resync, stored, caches, pass
<1>4. DueSoon'
  BY DEF DueSoon, Resync
<1>5. RefreshComes'
  BY DEF RefreshComes, Unused, Resync, stored
<1> QED BY <1>1, <1>2, <1>3, <1>4, <1>5

\* While no pass is queued time passes up to the delayed one, and the token outlives that;
\* while one is, at the cost of the delay that is left.
LEMMA TokenTick ==
    ASSUME Timely, IInv, TokenKept, Tick
    PROVE  TokenKept'
<1> USE Shapes DEF TokenKept, Timely
<1>1. Surroundings'
  BY DEF Surroundings, Tick, stored, caches, pass, WorkerConfig
<1>2. SameToken'
  BY DEF SameToken, Tick, stored
<1>3. PassKnows'
  BY DEF PassKnows, Tick, pass
<1>4. DueSoon'
  BY DEF DueSoon, Tick
<1>5. RefreshComes'
  BY DEF RefreshComes, Unused, Tick, Late, stored, caches, Fresh
<1> QED BY <1>1, <1>2, <1>3, <1>4, <1>5

\* The cluster only progresses, and takes nobody out of the queue.
LEMMA TokenClusterProgress ==
    ASSUME Timely, IInv, TokenKept, ClusterProgress
    PROVE  TokenKept'
<1> USE Shapes DEF TokenKept, Timely
<1>1. Surroundings'
  BY DEF Surroundings, ClusterProgress, caches, pass, WorkerConfig
<1>2. SameToken'
  BY DEF SameToken, ClusterProgress
<1>3. PassKnows'
  BY DEF PassKnows, ClusterProgress, caches, pass
<1>4. DueSoon'
  BY DEF DueSoon, ClusterProgress
<1>5. RefreshComes'
  BY DEF RefreshComes, Unused, ClusterProgress, caches, pass, Fresh
<1> QED BY <1>1, <1>2, <1>3, <1>4, <1>5

\* The machine gets the name of data that is reported, and needs the token no longer once
\* it has its infrastructure.
LEMMA TokenMachineProgress ==
    ASSUME Timely, IInv, TokenKept, MachineProgress
    PROVE  TokenKept'
<1> USE Shapes DEF TokenKept, Timely
<1>1. Surroundings'
  BY DEF Surroundings, MachineProgress, caches, pass, WorkerConfig, Machine
<1>2. SameToken'
  BY DEF SameToken, MachineProgress, Machine
<1>3. PassKnows'
  BY DEF IInv, Backed, PassKnows, MachineProgress, caches, pass, Machine
<1>4. DueSoon'
  BY DEF DueSoon, MachineProgress
<1>5. RefreshComes'
  BY DEF Surroundings, RefreshComes, Unused, MachineProgress, caches, Fresh, Machine
<1> QED BY <1>1, <1>2, <1>3, <1>4, <1>5

\* The move takes back the report, which is restored while the machine has the data.
LEMMA TokenPivot ==
    ASSUME Timely, IInv, TokenKept, Pivot
    PROVE  TokenKept'
<1> USE Shapes DEF TokenKept, Timely
<1>1. Surroundings'
  BY DEF Surroundings, Pivot, pass, WorkerConfig
<1>2. SameToken'
  BY DEF SameToken, Pivot
<1>3. PassKnows'
  BY DEF PassKnows, Pivot, pass
<1>4. DueSoon'
  BY DEF DueSoon, Pivot
<1>5. RefreshComes'
  BY DEF RefreshComes, Unused, Pivot
<1> QED BY <1>1, <1>2, <1>3, <1>4, <1>5

\* At the start there is neither data nor a pass, and a token in the config is one of
\* the user's.
LEMMA TokenInit == Timely /\ Init => TokenKept
<1> SUFFICES ASSUME Timely, Init PROVE TokenKept
  OBVIOUS
<1>1. PICK t \in UserToken \cup {None}, e \in BOOLEAN :
         /\ t # None => WorkerConfig
         /\ config = [token |-> t, endpoint |-> e, ready |-> FALSE]
  BY DEF Init
<1>2. Surroundings
  BY <1>1 DEF Init, Surroundings, NoConfig
<1>3. SameToken
  <2>1. config.token # None => expires[config.token] = MaxClock + TTL
    BY <1>1 DEF Init
  <2> QED
    BY <1>1, <2>1 DEF Init, SameToken, Timely, RefreshAfter
<1>4. PassKnows /\ DueSoon /\ RefreshComes
  BY DEF Init, PassKnows, DueSoon, RefreshComes, Unused
<1> QED
  BY <1>2, <1>3, <1>4 DEF TokenKept

\* Every step keeps what the token depends on.
LEMMA TokenInductive ==
    ASSUME Timely
    PROVE  IInv /\ TokenKept /\ [Next]_vars => TokenKept'
<1> SUFFICES ASSUME IInv, TokenKept, [Next]_vars PROVE TokenKept'
  OBVIOUS
<1>1. CASE Pass
  BY <1>1, TokenReconcile, TokenCreateToken, TokenRefreshToken, TokenCertificates,
     TokenStoreBootstrapData, TokenPatch DEF Pass
<1>2. CASE Crash \/ SyncConfig \/ SyncMachine \/ Requeue \/ Resync
  BY <1>2, TokenCrash, TokenSyncConfig, TokenSyncMachine, TokenRequeue, TokenResync
<1>3. CASE Tick \/ ClusterProgress \/ MachineProgress \/ Pivot
  BY <1>3, TokenTick, TokenClusterProgress, TokenMachineProgress, TokenPivot
<1>4. CASE UNCHANGED vars
  <2>1. UNCHANGED <<role, config, owner, cluster, secret, configC, ownerC, expires, clock,
                    delay, queued, due, pc, old, my, infraReady>>
    BY <1>4 DEF vars, stored, caches, pass
  <2> QED
    BY <2>1 DEF TokenKept, Surroundings, SameToken, PassKnows, DueSoon, RefreshComes, Unused,
       Fresh, WorkerConfig
<1> QED
  BY <1>1, <1>2, <1>3, <1>4 DEF Next

\* Unless a patch is lost or a pass reads a stale cache, and as long as passes that are due
\* are held up for less than half the time to live from one refresh to the next, the token
\* in the data a machine will use does not expire before the machine had its
\* infrastructure: for any time to live, and whichever calls fail, restarts and moves of
\* the objects come in between.
THEOREM TokenTheorem ==
    ASSUME FreshReads, ~PatchFaults, MaxDelay < TTL - TTL \div 2
    PROVE  Spec => []TokenAlive
<1>0. Timely
  BY DEF Timely, RefreshAfter
<1>1. Init => IInv /\ TokenKept
  BY <1>0, InitIInv, TokenInit
<1>2. IInv /\ TokenKept /\ [Next]_vars => IInv' /\ TokenKept'
  BY <1>0, Inductive, TokenInductive
<1>3. IInv /\ TokenKept => TokenAlive
  BY Shapes DEF IInv, Backed, TokenKept, RefreshComes, Unused, TokenAlive
<1> QED
  BY <1>1, <1>2, <1>3, PTL DEF Spec

=============================================================================
