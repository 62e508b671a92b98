--------------------- MODULE ClusterCertificates_proofs ---------------------
(***************************************************************************)
(* For any list of certificates, any number of configs and workers and any *)
(* number of faults: as long as no secret goes with the config that owns   *)
(* it, the passes that look up, generate and save certificates implement   *)
(* ClusterIdentity.                                                        *)
(*                                                                         *)
(* Secrets only go with a config when the user deletes one that no         *)
(* CritControlPlane manages, which KeepsSecrets rules out; in managed mode *)
(* it has to be shown, from who owns what.                                 *)
(***************************************************************************)
EXTENDS ClusterCertificates, TLAPS

\* Configs are deleted in clusters that have a CritControlPlane only.
KeepsSecrets == DeleteModes \subseteq {"managed"}

\* In managed mode all certificates are stored before the first config exists, so
\* none belongs to a config.
Ownership ==
    /\ mode = "managed" => \A p \in Purpose : owner[p] \in {CCP, None}
    /\ mode = "managed" /\ exists \cap Config # {} => managed
    /\ managed => \A p \in Purpose : secrets[p] # 0
    /\ \A a \in Config : pc[a] # "idle" => a \in exists
    /\ pc[CCP] # "store"

\* What the cache and a pass have of a secret is the secret, or they lack it; what a
\* pass generated is the secret once it is saved.
CopiesTrue ==
    /\ \A p \in Purpose : cache[p] \in {0, secrets[p]}
    /\ \A a \in Actor, p \in Purpose :
          /\ pc[a] \in {"idle", "lookup"} => held[a][p] \in {0, secrets[p]}
          /\ pc[a] = "save" =>
                held[a][p] # 0 /\ (p \notin generated[a] => held[a][p] = secrets[p])
          /\ pc[a] = "store" => held[a][p] # 0 /\ held[a][p] = secrets[p]
    /\ \A a \in Actor : \A i \in 1..(at[a] - 1) :
          pc[a] = "save" => held[a][Purposes[i]] = secrets[Purposes[i]]

\* What nodes were given is what is stored.
Trusted == \A a \in Config \cup Worker, p \in Purpose : data[a][p] # 0 => data[a][p] = secrets[p]

IInv == TypeOK /\ Ownership /\ CopiesTrue /\ Trusted

USE CertificatesAssumption DEF Key

\* The certificate a pass is at is one of the list.
LEMMA AtPurpose ==
    ASSUME TypeOK, NEW a \in Actor, at[a] <= Len(Purposes)
    PROVE  /\ Len(Purposes) \in Nat /\ at[a] \in 1..Len(Purposes)
           /\ Purposes[at[a]] \in Purpose /\ at[a] + 1 \in 1..(Len(Purposes) + 1)
BY DEF TypeOK, Purpose

\* All certificates of the list are those up to its end.
LEMMA AllPurposes ==
    ASSUME NEW p \in Purpose
    PROVE  \E i \in 1..Len(Purposes) : p = Purposes[i]
BY DEF Purpose

\* The invariant holds at the start.
LEMMA InitIInv == Init => IInv
<1> SUFFICES ASSUME Init PROVE IInv
  OBVIOUS
<1>0. Len(Purposes) \in Nat /\ CCP \in Actor /\ 0 \in Key /\ 1 \in Key
  BY DEF Actor
<1>1. secrets \in [Purpose -> Key] /\ cache = secrets
  <2>1. PICK supplied \in SUBSET Purpose :
           secrets = [q \in Purpose |-> IF q \in supplied THEN 1 ELSE 0]
    BY DEF Init
  <2>2. cache = secrets
    BY DEF Init
  <2>3. \A q \in Purpose : (IF q \in supplied THEN 1 ELSE 0) \in Key
    BY <1>0
  <2> HIDE DEF Key
  <2> QED
    BY <2>1, <2>2, <2>3
<1>2. TypeOK
  <2>1. NoKeys \in [Purpose -> Key]
    BY DEF NoKeys
  <2>2. mode \in {"managed", "standalone"} /\ faults \in 0..MaxFaults
    BY DEF Init
  <2>4. managed \in BOOLEAN
    BY Zenon DEF Init
  <2>3. 1 \in 1..(Len(Purposes) + 1)
    BY <1>0
  <2> HIDE DEF Key
  <2> QED
    BY <1>1, <2>1, <2>2, <2>3, <2>4 DEF Init, TypeOK
<1>3. Ownership
  BY <1>0 DEF Init, Ownership, Actor
<1>4. CopiesTrue
  BY <1>1 DEF Init, CopiesTrue, NoKeys
<1>5. Trusted
  BY DEF Init, Trusted, NoKeys
<1> QED
  BY <1>2, <1>3, <1>4, <1>5 DEF IInv

-----------------------------------------------------------------------------
(* Types, whatever is deleted *)

\* A pass that ends holds nothing.
LEMMA EndPassKeeps ==
    ASSUME TypeOK, NEW a \in Actor, EndPass(a)
    PROVE  /\ pc' \in [Actor -> {"idle", "lookup", "save", "store"}]
           /\ at' \in [Actor -> 1..(Len(Purposes) + 1)]
           /\ held' \in [Actor -> [Purpose -> Key]] /\ generated' \in [Actor -> SUBSET Purpose]
           /\ pc'[a] = "idle" /\ held'[a] = NoKeys
           /\ \A b \in Actor : b # a =>
                 /\ pc'[b] = pc[b] /\ at'[b] = at[b]
                 /\ held'[b] = held[b] /\ generated'[b] = generated[b]
<1>1. NoKeys \in [Purpose -> Key] /\ Len(Purposes) \in Nat
  BY DEF NoKeys
<1> HIDE DEF Key
<1> QED
  BY <1>1 DEF EndPass, TypeOK

\* What Generate makes of the key pairs that were found: all of them.
LEMMA Generated ==
    ASSUME TypeOK, NEW a \in Actor, Generate(a),
           NEW keys, keys = [p \in Purpose |-> IF p \in Missing(a) THEN Fresh(p) ELSE held[a][p]]
    PROVE  /\ keys \in [Purpose -> Key]
           /\ \A p \in Purpose : keys[p] # 0 /\ (p \notin Missing(a) => keys[p] = held[a][p])
<1>1. \A p \in Missing(a) : Fresh(p) \in 1..MaxKeys
  <2> SUFFICES ASSUME NEW p \in Missing(a) PROVE Fresh(p) \in 1..MaxKeys
    OBVIOUS
  <2>1. Unused(p) # {}
    BY DEF Generate
  <2>2. Fresh(p) \in Unused(p)
    BY <2>1 DEF Fresh
  <2> QED
    BY <2>2 DEF Unused
<1> QED
  BY <1>1 DEF Missing, TypeOK

\* Every step keeps the types, and a pass that saves has all key pairs.
LEMMA TypeStep == TypeOK /\ [Next]_vars => TypeOK'
<1> SUFFICES ASSUME TypeOK, [Next]_vars PROVE TypeOK'
  OBVIOUS
<1> DEFINE Complete == \A b \in Actor : pc[b] \in {"save", "store"} => \A q \in Purpose : held[b][q] # 0
<1>0. Len(Purposes) \in Nat /\ Complete
  BY DEF TypeOK
<1>a. ASSUME NEW a \in Actor, EndPass(a)
      PROVE  /\ pc' \in [Actor -> {"idle", "lookup", "save", "store"}]
             /\ at' \in [Actor -> 1..(Len(Purposes) + 1)]
             /\ held' \in [Actor -> [Purpose -> Key]] /\ generated' \in [Actor -> SUBSET Purpose]
             /\ Complete'
  <2>1. /\ pc'[a] = "idle"
        /\ \A b \in Actor : b # a => pc'[b] = pc[b] /\ held'[b] = held[b]
    BY <1>a, EndPassKeeps
  <2>2. Complete'
    BY <1>0, <2>1
  <2> QED
    BY <1>a, <2>2, EndPassKeeps
<1>1. ASSUME NEW a \in Actor, Start(a) PROVE TypeOK'
  BY <1>1 DEF Start, TypeOK
<1>2. ASSUME NEW a \in Actor, Lookup(a) PROVE TypeOK'
  <2> DEFINE p == Purposes[at[a]]
  <2>1. p \in Purpose /\ at[a] + 1 \in 1..(Len(Purposes) + 1)
    BY <1>2, AtPurpose DEF Lookup
  <2> HIDE DEF p
  <2>2. held' = [held EXCEPT ![a][p] = cache[p]] /\ at' = [at EXCEPT ![a] = @ + 1]
        /\ UNCHANGED <<mode, secrets, owner, cache, exists, managed, pc, generated, data, faults>>
        /\ pc[a] = "lookup"
    BY <1>2 DEF Lookup, p
  <2>3. [held[a] EXCEPT ![p] = cache[p]] \in [Purpose -> Key]
    BY <2>1 DEF TypeOK
  <2> QED
    BY <2>1, <2>2, <2>3 DEF TypeOK
<1>3. ASSUME NEW a \in Actor, Generate(a) PROVE TypeOK'
  <2> DEFINE keys == [p \in Purpose |-> IF p \in Missing(a) THEN Fresh(p) ELSE held[a][p]]
  <2>1. keys \in [Purpose -> Key] /\ \A p \in Purpose : keys[p] # 0
    BY <1>3, Generated
  <2> HIDE DEF keys
  <2>2. /\ held' = [held EXCEPT ![a] = keys]
        /\ generated' = [generated EXCEPT ![a] = Missing(a)]
        /\ pc' = [pc EXCEPT ![a] = "save"] /\ at' = [at EXCEPT ![a] = 1]
        /\ UNCHANGED <<mode, secrets, owner, cache, exists, managed, data, faults>>
    BY <1>3 DEF Generate, keys
  <2>3. Missing(a) \subseteq Purpose
    BY DEF Missing
  <2>4. Complete'
    <3>1. \A b \in Actor : /\ b = a => held'[b] = keys
                           /\ b # a => held'[b] = held[b] /\ pc'[b] = pc[b]
      BY <2>2 DEF TypeOK
    <3> QED
      BY <1>0, <2>1, <3>1
  <2> QED
    BY <1>0, <2>1, <2>2, <2>3, <2>4 DEF TypeOK
<1>4. ASSUME NEW a \in Actor, SaveGenerated(a) PROVE TypeOK'
  <2> DEFINE p == Purposes[at[a]]
  <2>0. p \in Purpose /\ at[a] + 1 \in 1..(Len(Purposes) + 1)
    BY <1>4, AtPurpose DEF SaveGenerated
  <2>1. /\ UNCHANGED <<mode, cache, exists, managed, data>>
        /\ \/ UNCHANGED <<secrets, owner>>
           \/ secrets' = [secrets EXCEPT ![p] = held[a][p]] /\ owner' = [owner EXCEPT ![p] = a]
        /\ \/ EndPass(a)
           \/ at' = [at EXCEPT ![a] = @ + 1] /\ UNCHANGED <<pc, held, generated>>
    BY <1>4 DEF SaveGenerated
  <2>2. faults' \in 0..MaxFaults
    BY <1>4 DEF SaveGenerated, TypeOK
  <2> HIDE DEF p
  <2>3. secrets' \in [Purpose -> Key] /\ owner' \in [Purpose -> Actor \cup {None}]
    <3>1. held[a][p] \in Key
      BY <2>0 DEF TypeOK
    <3> HIDE DEF Key
    <3>2. CASE UNCHANGED <<secrets, owner>>
      BY <3>2 DEF TypeOK
    <3>3. CASE secrets' = [secrets EXCEPT ![p] = held[a][p]] /\ owner' = [owner EXCEPT ![p] = a]
      BY <2>0, <3>1, <3>3 DEF TypeOK
    <3> QED
      BY <2>1, <3>2, <3>3
  <2>4. CASE EndPass(a)
    BY <1>a, <2>1, <2>2, <2>3, <2>4 DEF TypeOK
  <2>5. CASE at' = [at EXCEPT ![a] = @ + 1] /\ UNCHANGED <<pc, held, generated>>
    BY <2>0, <2>1, <2>2, <2>3, <2>5 DEF TypeOK
  <2> QED
    BY <2>1, <2>4, <2>5
<1>5. ASSUME NEW a \in Actor, Saved(a) PROVE TypeOK'
  <2>1. UNCHANGED <<mode, secrets, owner, cache, exists, data, faults>> /\ pc[a] = "save"
    BY <1>5 DEF Saved
  <2>2. CASE managed' = TRUE /\ EndPass(a)
    BY <1>a, <2>1, <2>2 DEF TypeOK
  <2>3. CASE pc' = [pc EXCEPT ![a] = "store"] /\ UNCHANGED <<managed, at, held, generated>>
    BY <1>0, <2>1, <2>3 DEF TypeOK
  <2> QED
    BY <1>5, <2>2, <2>3 DEF Saved
<1>6. ASSUME NEW a \in Actor, StoreBootstrapData(a) PROVE TypeOK'
  <2> DEFINE files == AsFiles(held[a])
  <2>1. files \in [Purpose -> Key]
    BY DEF AsFiles, TypeOK
  <2> HIDE DEF files
  <2>2. data' = data \/ data' = [data EXCEPT ![a] = files]
    BY <1>6 DEF StoreBootstrapData, files
  <2>3. data' \in [Config \cup Worker -> [Purpose -> Key]]
    BY <2>1, <2>2 DEF TypeOK
  <2>4. UNCHANGED <<mode, secrets, owner, cache, exists, managed, faults>> /\ EndPass(a)
    BY <1>6 DEF StoreBootstrapData
  <2> QED
    BY <1>a, <2>3, <2>4 DEF TypeOK
<1>7. ASSUME NEW a \in Config, CreateConfig(a) \/ DeleteConfig(a) PROVE TypeOK'
  <2>1. CASE CreateConfig(a)
    BY <2>1 DEF CreateConfig, TypeOK
  <2>2. CASE DeleteConfig(a)
    <3>1. secrets' \in [Purpose -> Key] /\ owner' \in [Purpose -> Actor \cup {None}]
      BY <2>2 DEF DeleteConfig, TypeOK
    <3> QED
      BY <2>2, <3>1 DEF DeleteConfig, TypeOK
  <2> QED
    BY <1>7, <2>1, <2>2
<1>8. ASSUME NEW w \in Worker, WorkerPass(w) PROVE TypeOK'
  <2>1. [data[w] EXCEPT !["ca"] = cache["ca"]] \in [Purpose -> Key]
    BY DEF TypeOK
  <2> QED
    BY <1>8, <2>1 DEF WorkerPass, TypeOK
<1>9. ASSUME NEW p \in Purpose, SyncSecret(p) PROVE TypeOK'
  BY <1>9 DEF SyncSecret, TypeOK
<1>10. CASE Crash
  BY <1>0, <1>10 DEF Crash, TypeOK, NoKeys
<1>11. CASE UNCHANGED vars
  BY <1>11 DEF vars, TypeOK
<1> QED
  BY <1>1, <1>2, <1>3, <1>4, <1>5, <1>6, <1>7, <1>8, <1>9, <1>10, <1>11 DEF Next, Pass

-----------------------------------------------------------------------------
(* The invariant is kept *)

\* Creating a config changes nothing that is known of the certificates.
LEMMA KeepsCreateConfig ==
    ASSUME IInv, NEW a \in Config, CreateConfig(a)
    PROVE  IInv'
<1> USE DEF IInv
<1>1. TypeOK'
  BY TypeStep DEF Next, Pass
<1>2. Ownership'
  BY DEF CreateConfig, MayGenerate, Ownership
<1>3. CopiesTrue' /\ Trusted'
  BY DEF CreateConfig, CopiesTrue, Trusted
<1> QED
  BY <1>1, <1>2, <1>3

\* No certificate goes with a config.
LEMMA DeleteKeepsSecrets ==
    ASSUME KeepsSecrets, IInv, NEW a \in Config, DeleteConfig(a)
    PROVE  UNCHANGED <<secrets, owner>>
<1>1. \A p \in Purpose : owner[p] # a
  BY DEF KeepsSecrets, IInv, DeleteConfig, Ownership, Actor
<1> QED
  BY <1>1 DEF IInv, TypeOK, DeleteConfig

\* With a config of a CritControlPlane no certificate goes.
LEMMA KeepsDeleteConfig ==
    ASSUME KeepsSecrets, IInv, NEW a \in Config, DeleteConfig(a)
    PROVE  IInv'
<1> USE DEF IInv
<1>0. UNCHANGED <<secrets, owner>>
  BY DeleteKeepsSecrets
<1>1. TypeOK'
  BY TypeStep DEF Next, Pass
<1>2. Ownership'
  BY <1>0 DEF DeleteConfig, Ownership
<1>3. CopiesTrue' /\ Trusted'
  BY <1>0 DEF DeleteConfig, CopiesTrue, Trusted
<1> QED
  BY <1>1, <1>2, <1>3

\* The end of a pass leaves true copies, when no secret that is held has changed.
LEMMA EndPassCopies ==
    ASSUME IInv, NEW a \in Actor, EndPass(a),
           \A q \in Purpose : cache'[q] \in {0, secrets'[q]},
           \A b \in Actor, q \in Purpose :
              /\ held[b][q] = secrets[q] /\ held[b][q] # 0 => held[b][q] = secrets'[q]
              /\ held[b][q] \in {0, secrets[q]} => held[b][q] \in {0, secrets'[q]}
    PROVE  CopiesTrue'
<1>0. TypeOK /\ CopiesTrue
  BY DEF IInv
<1>1. /\ pc'[a] = "idle" /\ held'[a] = NoKeys
      /\ \A b \in Actor : b # a =>
            /\ pc'[b] = pc[b] /\ at'[b] = at[b]
            /\ held'[b] = held[b] /\ generated'[b] = generated[b]
  BY <1>0, EndPassKeeps
<1>2. ASSUME NEW b \in Actor, NEW q \in Purpose
      PROVE  /\ pc'[b] \in {"idle", "lookup"} => held'[b][q] \in {0, secrets'[q]}
             /\ pc'[b] = "save" =>
                   held'[b][q] # 0 /\ (q \notin generated'[b] => held'[b][q] = secrets'[q])
             /\ pc'[b] = "store" => held'[b][q] # 0 /\ held'[b][q] = secrets'[q]
  <2>1. CASE b = a
    <3>1. held'[b][q] = 0 /\ pc'[b] = "idle"
      BY <1>1, <2>1 DEF NoKeys
    <3> QED
      BY <3>1
  <2>2. CASE b # a
    <3>1. /\ pc[b] \in {"idle", "lookup"} => held[b][q] \in {0, secrets[q]}
          /\ pc[b] = "save" =>
                held[b][q] # 0 /\ (q \notin generated[b] => held[b][q] = secrets[q])
          /\ pc[b] = "store" => held[b][q] # 0 /\ held[b][q] = secrets[q]
      BY <1>0 DEF CopiesTrue
    <3>2. /\ held[b][q] = secrets[q] /\ held[b][q] # 0 => held[b][q] = secrets'[q]
          /\ held[b][q] \in {0, secrets[q]} => held[b][q] \in {0, secrets'[q]}
      OBVIOUS
    <3>3. /\ pc'[b] = pc[b] /\ held'[b] = held[b] /\ generated'[b] = generated[b]
      BY <1>1, <2>2
    <3> QED
      BY <3>1, <3>2, <3>3
  <2> QED
    BY <2>1, <2>2
<1>3. ASSUME NEW b \in Actor, NEW i \in 1..(at'[b] - 1), pc'[b] = "save"
      PROVE  held'[b][Purposes[i]] = secrets'[Purposes[i]]
  <2>1. b # a
    BY <1>1, <1>3
  <2>2. i \in 1..(at[b] - 1) /\ pc[b] = "save" /\ held'[b] = held[b]
    BY <1>1, <1>3, <2>1
  <2>3. Purposes[i] \in Purpose
    BY <1>0, <2>2 DEF TypeOK, Purpose
  <2>4. held[b][Purposes[i]] = secrets[Purposes[i]] /\ held[b][Purposes[i]] # 0
    BY <1>0, <2>2, <2>3 DEF CopiesTrue
  <2> QED
    BY <2>2, <2>3, <2>4
<1> QED
  BY <1>2, <1>3 DEF CopiesTrue

\* A pass starts with nothing in memory.
LEMMA KeepsStart ==
    ASSUME IInv, NEW a \in Actor, Start(a)
    PROVE  IInv'
<1> USE DEF IInv
<1>1. TypeOK'
  BY TypeStep DEF Next, Pass
<1>2. Ownership'
  BY DEF Start, TypeOK, Ownership, Actor
<1>3. CopiesTrue' /\ Trusted'
  BY DEF Start, TypeOK, CopiesTrue, Trusted
<1> QED
  BY <1>1, <1>2, <1>3

\* What is found in the cache is what is stored.
LEMMA KeepsLookup ==
    ASSUME IInv, NEW a \in Actor, Lookup(a)
    PROVE  IInv'
<1> USE DEF IInv
<1> DEFINE p == Purposes[at[a]]
<1>0. p \in Purpose /\ at[a] + 1 \in 1..(Len(Purposes) + 1)
  BY AtPurpose DEF Lookup
<1> HIDE DEF p
<1>1. held' = [held EXCEPT ![a][p] = cache[p]] /\ at' = [at EXCEPT ![a] = @ + 1]
      /\ UNCHANGED <<mode, secrets, owner, cache, exists, managed, pc, generated, data, faults>>
      /\ pc[a] = "lookup"
  BY DEF Lookup, p
<1>2. [held[a] EXCEPT ![p] = cache[p]] \in [Purpose -> Key]
  BY <1>0 DEF TypeOK
<1>3. TypeOK'
  BY TypeStep DEF Next, Pass
<1>4. Ownership' /\ Trusted'
  BY <1>1 DEF Ownership, Trusted
<1>5. CopiesTrue'
  <2>1. \A b \in Actor : b # a => held'[b] = held[b] /\ at'[b] = at[b]
    BY <1>1 DEF TypeOK
  <2>2. \A q \in Purpose : held'[a][q] = held[a][q] \/ held'[a][q] = cache[q]
    BY <1>0, <1>1 DEF TypeOK
  <2> QED
    BY <1>1, <2>1, <2>2 DEF CopiesTrue
<1> QED
  BY <1>3, <1>4, <1>5

\* What is missing is generated; the rest stays what is stored.
LEMMA KeepsGenerate ==
    ASSUME IInv, NEW a \in Actor, Generate(a)
    PROVE  IInv'
<1> USE DEF IInv
<1> DEFINE keys == [p \in Purpose |-> IF p \in Missing(a) THEN Fresh(p) ELSE held[a][p]]
<1>2. /\ keys \in [Purpose -> Key]
      /\ \A p \in Purpose : keys[p] # 0 /\ (p \notin Missing(a) => keys[p] = held[a][p])
  BY Generated
<1> HIDE DEF keys
<1>3. /\ held' = [held EXCEPT ![a] = keys]
      /\ generated' = [generated EXCEPT ![a] = Missing(a)]
      /\ pc' = [pc EXCEPT ![a] = "save"] /\ at' = [at EXCEPT ![a] = 1]
      /\ UNCHANGED <<mode, secrets, owner, cache, exists, managed, data, faults>>
      /\ pc[a] = "lookup"
  BY DEF Generate, keys
<1>4. Missing(a) \subseteq Purpose /\ Len(Purposes) \in Nat
  BY DEF Missing
<1>5. TypeOK'
  BY TypeStep DEF Next, Pass
<1>6. Ownership' /\ Trusted'
  BY <1>3 DEF TypeOK, Ownership, Trusted, Actor
<1>7. CopiesTrue'
  <2>1. \A b \in Actor : b # a =>
          held'[b] = held[b] /\ at'[b] = at[b] /\ pc'[b] = pc[b] /\ generated'[b] = generated[b]
    BY <1>3 DEF TypeOK
  <2>2. held'[a] = keys /\ at'[a] = 1 /\ pc'[a] = "save" /\ generated'[a] = Missing(a)
    BY <1>3 DEF TypeOK
  <2>3. \A p \in Purpose : p \notin Missing(a) => keys[p] = secrets[p]
    BY <1>2, <1>3 DEF CopiesTrue, Missing
  <2>4. 1..(at'[a] - 1) = {}
    BY <2>2
  <2> QED
    BY <1>2, <1>3, <2>1, <2>2, <2>3, <2>4 DEF CopiesTrue
<1> QED
  BY <1>5, <1>6, <1>7

\* A secret that is created is what its pass holds, and was nobody's before.
LEMMA CreatedKeeps ==
    ASSUME IInv, NEW a \in Actor, NEW p \in Purpose, pc[a] = "save", secrets[p] = 0,
           secrets' = [secrets EXCEPT ![p] = held[a][p]], owner' = [owner EXCEPT ![p] = a]
    PROVE  /\ secrets' \in [Purpose -> Key] /\ owner' \in [Purpose -> Actor \cup {None}]
           /\ \A q \in Purpose : secrets[q] # 0 => secrets'[q] = secrets[q]
           /\ secrets'[p] = held[a][p] /\ held[a][p] \in 1..MaxKeys
           /\ mode = "managed" => \A q \in Purpose : owner'[q] \in {CCP, None}
<1> USE DEF IInv
<1>1. held[a][p] \in Key /\ held[a][p] # 0
  BY DEF TypeOK, CopiesTrue
<1>2. mode = "managed" => a = CCP
  BY DEF Ownership, Actor
<1> QED
  BY <1>1, <1>2 DEF TypeOK, Ownership

\* Whatever a pass holds of a secret that is there stays true when others are created.
LEMMA StoredStays ==
    ASSUME IInv, UNCHANGED <<cache, data>>,
           \A q \in Purpose : secrets[q] # 0 => secrets'[q] = secrets[q]
    PROVE  /\ Trusted'
           /\ \A q \in Purpose : cache'[q] \in {0, secrets'[q]}
           /\ \A b \in Actor, q \in Purpose :
                 /\ held[b][q] = secrets[q] /\ held[b][q] # 0 => held[b][q] = secrets'[q]
                 /\ held[b][q] \in {0, secrets[q]} => held[b][q] \in {0, secrets'[q]}
           /\ (\A q \in Purpose : secrets[q] # 0) => \A q \in Purpose : secrets'[q] # 0
BY DEF IInv, Trusted, CopiesTrue

\* Only a purpose without secret gets one, and the pass that loses ends.
LEMMA KeepsSaveGenerated ==
    ASSUME IInv, NEW a \in Actor, SaveGenerated(a)
    PROVE  IInv'
<1> USE DEF IInv
<1> DEFINE p == Purposes[at[a]]
           created == /\ secrets[p] = 0
                      /\ secrets' = [secrets EXCEPT ![p] = held[a][p]]
                      /\ owner' = [owner EXCEPT ![p] = a]
<1>0. p \in Purpose /\ at[a] + 1 \in 1..(Len(Purposes) + 1) /\ at[a] \in 1..Len(Purposes)
  BY AtPurpose DEF SaveGenerated
<1>1. /\ pc[a] = "save" /\ UNCHANGED <<mode, cache, exists, managed, data>>
      /\ created \/ UNCHANGED <<secrets, owner>>
      /\ \/ EndPass(a)
         \/ /\ (p \in generated[a] /\ created) \/ (p \notin generated[a] /\ UNCHANGED <<secrets, owner>>)
            /\ at' = [at EXCEPT ![a] = @ + 1] /\ UNCHANGED <<pc, held, generated>>
  BY DEF SaveGenerated, CreateConflicts
<1>2. faults' \in 0..MaxFaults
  BY DEF SaveGenerated, TypeOK
<1>3. /\ secrets' \in [Purpose -> Key] /\ owner' \in [Purpose -> Actor \cup {None}]
      /\ \A q \in Purpose : secrets[q] # 0 => secrets'[q] = secrets[q]
      /\ mode = "managed" => \A q \in Purpose : owner'[q] \in {CCP, None}
      /\ created => secrets'[p] = held[a][p]
  <2>1. CASE created
    BY <1>0, <1>1, <2>1, CreatedKeeps
  <2>2. CASE UNCHANGED <<secrets, owner>>
    <3>1. created => secrets'[p] = held[a][p]
      BY <1>0 DEF TypeOK
    <3> QED
      BY <2>2, <3>1 DEF TypeOK, Ownership
  <2> QED
    BY <1>1, <2>1, <2>2
<1>4. /\ Trusted'
      /\ \A q \in Purpose : cache'[q] \in {0, secrets'[q]}
      /\ \A b \in Actor, q \in Purpose :
            /\ held[b][q] = secrets[q] /\ held[b][q] # 0 => held[b][q] = secrets'[q]
            /\ held[b][q] \in {0, secrets[q]} => held[b][q] \in {0, secrets'[q]}
      /\ (\A q \in Purpose : secrets[q] # 0) => \A q \in Purpose : secrets'[q] # 0
  BY <1>1, <1>3, StoredStays
<1> HIDE DEF p, created
<1>5. CASE EndPass(a)
  <2>0. /\ pc' \in [Actor -> {"idle", "lookup", "save", "store"}]
        /\ at' \in [Actor -> 1..(Len(Purposes) + 1)]
        /\ held' \in [Actor -> [Purpose -> Key]] /\ generated' \in [Actor -> SUBSET Purpose]
        /\ pc'[a] = "idle" /\ held'[a] = NoKeys
        /\ \A b \in Actor : b # a =>
              /\ pc'[b] = pc[b] /\ at'[b] = at[b]
              /\ held'[b] = held[b] /\ generated'[b] = generated[b]
    BY <1>5, EndPassKeeps
  <2>1. TypeOK'
    BY TypeStep DEF Next, Pass
  <2>2. Ownership'
    BY <1>1, <1>3, <1>4, <2>0 DEF Ownership, Actor
  <2>3. CopiesTrue'
    BY <1>4, <1>5, EndPassCopies
  <2> QED
    BY <1>4, <2>1, <2>2, <2>3
<1>6. CASE /\ (p \in generated[a] /\ created) \/ (p \notin generated[a] /\ UNCHANGED <<secrets, owner>>)
           /\ at' = [at EXCEPT ![a] = @ + 1] /\ UNCHANGED <<pc, held, generated>>
  <2>1. TypeOK'
    BY TypeStep DEF Next, Pass
  <2>2. Ownership'
    BY <1>1, <1>3, <1>4, <1>6 DEF Ownership
  <2>3. held[a][p] = secrets'[p]
    BY <1>0, <1>1, <1>3, <1>6 DEF CopiesTrue
  <2>4. CopiesTrue'
    <3>1. \A i \in 1..Len(Purposes) : Purposes[i] \in Purpose
      BY DEF Purpose
    <3>2. \A b \in Actor : \A i \in 1..(at[b] - 1) : i \in 1..Len(Purposes)
      BY DEF TypeOK
    <3>3. \A b \in Actor : \A i \in 1..(at[b] - 1) :
             pc[b] = "save" => held[b][Purposes[i]] = secrets'[Purposes[i]]
      BY <1>4, <3>1, <3>2 DEF CopiesTrue
    <3>4. \A i \in 1..(at'[a] - 1) : i \in 1..(at[a] - 1) \/ Purposes[i] = p
      BY <1>0, <1>6 DEF TypeOK, p
    <3>5. \A b \in Actor : b # a => at'[b] = at[b]
      BY <1>6 DEF TypeOK
    <3>6. \A b \in Actor, q \in Purpose :
             /\ pc[b] \in {"idle", "lookup"} => held[b][q] \in {0, secrets'[q]}
             /\ pc[b] = "save" =>
                   held[b][q] # 0 /\ (q \notin generated[b] => held[b][q] = secrets'[q])
             /\ pc[b] = "store" => held[b][q] # 0 /\ held[b][q] = secrets'[q]
      BY <1>4 DEF CopiesTrue
    <3>7. \A b \in Actor : \A i \in 1..(at'[b] - 1) :
             pc[b] = "save" => held[b][Purposes[i]] = secrets'[Purposes[i]]
      BY <2>3, <3>3, <3>4, <3>5
    <3> QED
      BY <1>4, <1>6, <3>6, <3>7 DEF CopiesTrue
  <2> QED
    BY <1>4, <2>1, <2>2, <2>4
<1> QED
  BY <1>1, <1>5, <1>6

\* A pass that reaches the end of the list holds what is stored.
LEMMA KeepsSaved ==
    ASSUME IInv, NEW a \in Actor, Saved(a)
    PROVE  IInv'
<1> USE DEF IInv
<1>1. \A p \in Purpose : held[a][p] = secrets[p] /\ held[a][p] # 0
  <2>1. \A i \in 1..Len(Purposes) : i \in 1..(at[a] - 1)
    BY DEF Saved
  <2> QED
    BY <2>1, AllPurposes DEF Saved, CopiesTrue
<1>2. UNCHANGED <<mode, secrets, owner, cache, exists, data, faults>> /\ pc[a] = "save"
  BY DEF Saved
<1>3. CASE a = CCP /\ managed' = TRUE /\ EndPass(a)
  <2>0. /\ pc' \in [Actor -> {"idle", "lookup", "save", "store"}]
        /\ at' \in [Actor -> 1..(Len(Purposes) + 1)]
        /\ held' \in [Actor -> [Purpose -> Key]] /\ generated' \in [Actor -> SUBSET Purpose]
        /\ pc'[a] = "idle" /\ held'[a] = NoKeys
        /\ \A b \in Actor : b # a =>
              /\ pc'[b] = pc[b] /\ at'[b] = at[b]
              /\ held'[b] = held[b] /\ generated'[b] = generated[b]
    BY <1>3, EndPassKeeps
  <2>1. TypeOK'
    BY TypeStep DEF Next, Pass
  <2>2. Ownership'
    BY <1>1, <1>2, <1>3, <2>0 DEF Ownership, Actor
  <2>3. CopiesTrue' /\ Trusted'
    BY <1>2, <1>3, EndPassCopies DEF CopiesTrue, Trusted
  <2> QED
    BY <2>1, <2>2, <2>3
<1>4. CASE a # CCP /\ pc' = [pc EXCEPT ![a] = "store"] /\ UNCHANGED <<managed, at, held, generated>>
  <2>1. TypeOK'
    BY TypeStep DEF Next, Pass
  <2>2. Ownership'
    BY <1>2, <1>4 DEF TypeOK, Ownership, Actor
  <2>3. CopiesTrue' /\ Trusted'
    <3>1. \A b \in Actor : pc'[b] = IF b = a THEN "store" ELSE pc[b]
      BY <1>4 DEF TypeOK
    <3> QED
      BY <1>1, <1>2, <1>4, <3>1 DEF CopiesTrue, Trusted
  <2> QED
    BY <2>1, <2>2, <2>3
<1> QED
  BY <1>3, <1>4 DEF Saved

\* What a pass puts into the data, when it is the first: all certificates that have
\* a file, as they are stored.
LEMMA StoredData ==
    ASSUME IInv, NEW a \in Actor, StoreBootstrapData(a)
    PROVE  /\ a \in Config
           /\ \A p \in Purpose : held[a][p] = secrets[p] /\ secrets[p] # 0
           /\ AsFiles(held[a]) \in [Purpose -> Key]
           /\ AsFiles(held[a]) = [p \in Purpose |-> IF p \in Purpose \ {"authproxy"} THEN secrets[p] ELSE 0]
BY DEF IInv, TypeOK, Ownership, CopiesTrue, StoreBootstrapData, AsFiles, Actor

\* Nodes are given what the pass holds.
LEMMA KeepsStoreBootstrapData ==
    ASSUME IInv, NEW a \in Actor, StoreBootstrapData(a)
    PROVE  IInv'
<1>s. /\ a \in Config /\ AsFiles(held[a]) \in [Purpose -> Key]
      /\ \A p \in Purpose : AsFiles(held[a])[p] # 0 => AsFiles(held[a])[p] = secrets[p]
  <2> DEFINE files == AsFiles(held[a])
  <2>1. /\ a \in Config /\ files \in [Purpose -> Key]
        /\ files = [p \in Purpose |-> IF p \in Purpose \ {"authproxy"} THEN secrets[p] ELSE 0]
    BY StoredData
  <2> HIDE DEF files
  <2>2. \A p \in Purpose : files[p] # 0 => files[p] = secrets[p]
    BY <2>1
  <2> QED
    BY <2>1, <2>2 DEF files
<1> DEFINE files == AsFiles(held[a])
<1> USE DEF IInv
<1>0. /\ pc' \in [Actor -> {"idle", "lookup", "save", "store"}]
      /\ at' \in [Actor -> 1..(Len(Purposes) + 1)]
      /\ held' \in [Actor -> [Purpose -> Key]] /\ generated' \in [Actor -> SUBSET Purpose]
      /\ pc'[a] = "idle" /\ held'[a] = NoKeys
      /\ \A b \in Actor : b # a =>
            /\ pc'[b] = pc[b] /\ at'[b] = at[b]
            /\ held'[b] = held[b] /\ generated'[b] = generated[b]
  BY EndPassKeeps DEF StoreBootstrapData
<1>1. UNCHANGED <<mode, secrets, owner, cache, exists, managed, faults>>
  BY DEF StoreBootstrapData
<1>2. data' = data \/ data' = [data EXCEPT ![a] = files]
  BY DEF StoreBootstrapData
<1> HIDE DEF files
<1>f. /\ a \in Config /\ files \in [Purpose -> Key]
      /\ \A p \in Purpose : files[p] # 0 => files[p] = secrets[p]
  BY <1>s DEF files
<1>d. data' \in [Config \cup Worker -> [Purpose -> Key]]
  BY <1>2, <1>f DEF TypeOK
<1>3. TypeOK'
  BY TypeStep DEF Next, Pass
<1>4. Ownership'
  BY <1>0, <1>1 DEF Ownership, Actor
<1>5. CopiesTrue'
  BY <1>1, EndPassCopies DEF StoreBootstrapData, CopiesTrue
<1>6. Trusted'
  <2>1. CASE data' = data
    BY <1>1, <2>1 DEF Trusted
  <2>2. CASE data' = [data EXCEPT ![a] = files]
    <3>1. \A c \in Config \cup Worker : data'[c] = IF c = a THEN files ELSE data[c]
      BY <2>2 DEF TypeOK
    <3> QED
      BY <1>1, <1>f, <3>1 DEF Trusted
  <2> QED
    BY <1>2, <2>1, <2>2
<1> QED
  BY <1>3, <1>4, <1>5, <1>6

\* A worker is given what it finds.
LEMMA KeepsWorkerPass ==
    ASSUME IInv, NEW w \in Worker, WorkerPass(w)
    PROVE  IInv'
<1> USE DEF IInv
<1>0. [data[w] EXCEPT !["ca"] = cache["ca"]] \in [Purpose -> Key]
  BY DEF TypeOK
<1>1. TypeOK'
  BY TypeStep DEF Next, Pass
<1>2. Ownership'
  BY DEF WorkerPass, Ownership
<1>3. CopiesTrue'
  BY DEF WorkerPass, CopiesTrue
<1>4. Trusted'
  BY DEF WorkerPass, TypeOK, CopiesTrue, Trusted
<1> QED
  BY <1>1, <1>2, <1>3, <1>4

\* The cache gets what is stored.
LEMMA KeepsSyncSecret ==
    ASSUME IInv, NEW p \in Purpose, SyncSecret(p)
    PROVE  IInv'
<1> USE DEF IInv
<1>1. TypeOK'
  BY TypeStep DEF Next, Pass
<1>2. Ownership' /\ Trusted'
  BY DEF SyncSecret, Ownership, Trusted
<1>3. CopiesTrue'
  BY DEF SyncSecret, TypeOK, CopiesTrue
<1> QED
  BY <1>1, <1>2, <1>3

\* A crash forgets what the passes hold.
LEMMA KeepsCrash == ASSUME IInv, Crash PROVE IInv'
<1> USE DEF IInv
<1>0. Len(Purposes) \in Nat /\ CCP \in Actor
  BY DEF Actor
<1>1. TypeOK'
  BY TypeStep DEF Next, Pass
<1>2. Ownership'
  BY <1>0 DEF Crash, Ownership, Actor
<1>3. CopiesTrue' /\ Trusted'
  BY DEF Crash, CopiesTrue, Trusted, NoKeys
<1> QED
  BY <1>1, <1>2, <1>3

\* Every step keeps the invariant.
LEMMA Inductive == KeepsSecrets /\ IInv /\ [Next]_vars => IInv'
<1> SUFFICES ASSUME KeepsSecrets, IInv, [Next]_vars PROVE IInv'
  OBVIOUS
<1>1. ASSUME NEW a \in Actor, Pass(a) PROVE IInv'
  BY <1>1, KeepsStart, KeepsLookup, KeepsGenerate, KeepsSaveGenerated, KeepsSaved,
     KeepsStoreBootstrapData DEF Pass
<1>2. ASSUME NEW a \in Config, CreateConfig(a) \/ DeleteConfig(a) PROVE IInv'
  BY <1>2, KeepsCreateConfig, KeepsDeleteConfig
<1>3. ASSUME NEW w \in Worker, WorkerPass(w) PROVE IInv'
  BY <1>3, KeepsWorkerPass
<1>4. ASSUME NEW p \in Purpose, SyncSecret(p) PROVE IInv'
  BY <1>4, KeepsSyncSecret
<1>5. CASE Crash
  BY <1>5, KeepsCrash
<1>6. CASE UNCHANGED vars
  BY <1>6 DEF vars, IInv, TypeOK, Ownership, CopiesTrue, Trusted
<1> QED
  BY <1>1, <1>2, <1>3, <1>4, <1>5, <1>6 DEF Next

-----------------------------------------------------------------------------
(* Theorems *)

\* The invariant holds throughout.
LEMMA Always ==
    ASSUME KeepsSecrets
    PROVE  Spec => []IInv
<1>1. IInv /\ [Next]_vars => IInv'
  BY Inductive
<1> QED
  BY <1>1, InitIInv, PTL DEF Spec

\* Every variable keeps its type: in particular a pass never leaves the list of
\* certificates, and SaveGenerated and AsFiles never meet a key pair that is nil.
THEOREM TypeCorrect == Spec => []TypeOK
<1>1. Init => TypeOK
  BY InitIInv DEF IInv
<1> QED
  BY <1>1, TypeStep, PTL DEF Spec

\* LookupOrGenerate without a lock: whichever passes collide, fail half-way or read a
\* stale cache, the nodes of a cluster trust the same authorities, those stored.
THEOREM IdentityTheorem ==
    ASSUME KeepsSecrets
    PROVE  Spec => []OneIdentity
<1>1. IInv => OneIdentity
  BY DEF IInv, Trusted, OneIdentity, Ready
<1> QED
  BY <1>1, Always, PTL

\* The initial states are initial states of ClusterIdentity.
LEMMA IdentityInit == Init => Identity!Init
<1> SUFFICES ASSUME Init PROVE Identity!Init
  OBVIOUS
<1>1. secrets \in [Purpose -> 1..MaxKeys \cup {0}]
  BY InitIInv DEF IInv, TypeOK
<1> QED
  BY <1>1 DEF Init, Identity!Init, Identity!Nothing, NoKeys

\* A step of a pass, of a worker or of the surroundings is a step of ClusterIdentity,
\* or none.
LEMMA IdentityStep ==
    ASSUME KeepsSecrets, IInv, [Next]_vars
    PROVE  [Identity!Next]_(Identity!identity)
<1> USE DEF Identity!identity
<1> DEFINE carries == [n \in Config \cup Worker |->
                         IF n \in Config THEN Purpose \ {"authproxy"} ELSE {"ca"}]
<1>1. ASSUME NEW a \in Actor, SaveGenerated(a) PROVE [Identity!Next]_(Identity!identity)
  <2> DEFINE p == Purposes[at[a]]
  <2>1. p \in Purpose /\ pc[a] = "save" /\ UNCHANGED data
    BY <1>1, AtPurpose DEF SaveGenerated, IInv
  <2>2. CASE UNCHANGED secrets
    BY <2>1, <2>2
  <2>3. CASE /\ secrets[p] = 0 /\ secrets' = [secrets EXCEPT ![p] = held[a][p]]
             /\ owner' = [owner EXCEPT ![p] = a]
    <3>1. held[a][p] \in 1..MaxKeys
      BY <2>1, <2>3, CreatedKeeps
    <3>2. Identity!Establish(p)
      BY <2>1, <2>3, <3>1 DEF Identity!Establish
    <3> QED
      BY <2>1, <3>2 DEF Identity!Next
  <2> QED
    BY <1>1, <2>2, <2>3 DEF SaveGenerated
<1>2. ASSUME NEW a \in Actor, StoreBootstrapData(a) PROVE [Identity!Next]_(Identity!identity)
  <2>1. /\ a \in Config /\ UNCHANGED secrets
        /\ \A p \in Purpose : secrets[p] # 0
        /\ AsFiles(held[a]) = [p \in Purpose |-> IF p \in carries[a] THEN secrets[p] ELSE 0]
        /\ carries[a] \subseteq Purpose
    BY <1>2, StoredData DEF StoreBootstrapData
  <2>2. CASE data' = data
    BY <2>1, <2>2
  <2>3. CASE data[a] = NoKeys /\ data' = [data EXCEPT ![a] = AsFiles(held[a])]
    <3>1. Identity!Boot(a)
      BY <2>1, <2>3 DEF Identity!Boot, Identity!Nothing, NoKeys
    <3> QED
      BY <2>1, <3>1 DEF Identity!Next
  <2> QED
    BY <1>2, <2>2, <2>3 DEF StoreBootstrapData
<1>3. ASSUME NEW w \in Worker, WorkerPass(w) PROVE [Identity!Next]_(Identity!identity)
  <2>1. /\ data[w] = NoKeys /\ data' = [data EXCEPT ![w]["ca"] = cache["ca"]]
        /\ UNCHANGED secrets /\ cache["ca"] = secrets["ca"] /\ secrets["ca"] # 0
        /\ carries[w] = {"ca"}
    BY <1>3 DEF WorkerPass, IInv, CopiesTrue
  <2>2. [data[w] EXCEPT !["ca"] = cache["ca"]]
          = [p \in Purpose |-> IF p \in carries[w] THEN secrets[p] ELSE 0]
    BY <2>1 DEF NoKeys
  <2>3. data' = [data EXCEPT ![w] = [p \in Purpose |-> IF p \in carries[w] THEN secrets[p] ELSE 0]]
    BY <2>1, <2>2
  <2>4. Identity!Boot(w)
    BY <2>1, <2>3 DEF Identity!Boot, Identity!Nothing, NoKeys
  <2> QED
    BY <2>4 DEF Identity!Next
<1>4. ASSUME NEW a \in Config, DeleteConfig(a) PROVE UNCHANGED <<secrets, data>>
  BY <1>4, DeleteKeepsSecrets DEF DeleteConfig
<1>5. CASE \/ \E a \in Actor : Start(a) \/ Lookup(a) \/ Generate(a) \/ Saved(a)
           \/ \E a \in Config : CreateConfig(a)
           \/ \E p \in Purpose : SyncSecret(p)
           \/ Crash \/ UNCHANGED vars
  BY <1>5 DEF Start, Lookup, Generate, Saved, CreateConfig, SyncSecret, Crash, vars
<1> QED
  BY <1>1, <1>2, <1>3, <1>4, <1>5 DEF Next, Pass

\* The certificates of a cluster are one identity, established once per purpose and
\* given completely to every node, for any number of passes, faults and restarts.
THEOREM IdentityImplemented ==
    ASSUME KeepsSecrets
    PROVE  Spec => ImplementsIdentity
<1>1. Init => Identity!Init
  BY IdentityInit
<1>2. IInv /\ [Next]_vars => [Identity!Next]_(Identity!identity)
  BY IdentityStep
<1> QED
  BY <1>1, <1>2, Always, PTL DEF Spec, ImplementsIdentity, Identity!Spec

=============================================================================
