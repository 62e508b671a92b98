----------------------- MODULE MachinePlacement_proofs -----------------------
(***************************************************************************)
(* For any number of replicas, of failure domains, of specs and upgrades:  *)
(* an upgrade stays between Replicas and Replicas + 2 machines, evacuates  *)
(* the domains that were withdrawn, always finds the machine to remove,    *)
(* and while the domains stay never crowds one of them.                    *)
(*                                                                         *)
(* What a pass acts on was read before: the invariant relates it to what   *)
(* is true when it acts.  Two machines more than Replicas are only         *)
(* possible when more than Replicas nodes have joined, so no third is      *)
(* added; a spec that was not in use when the domains changed was read     *)
(* together with the domains that are reported now.                        *)
(***************************************************************************)
EXTENDS MachinePlacement, FiniteSetTheorems, TLAPS

USE PlacementAssumption

-----------------------------------------------------------------------------
(* Numbers *)

\* Quotient and remainder.
LEMMA DivMod ==
    ASSUME NEW N \in Nat \ {0}, NEW a \in Nat
    PROVE  a = N * (a \div N) + (a % N) /\ a % N \in 0..(N - 1) /\ a \div N \in Nat
OBVIOUS

\* There is but one remainder.
LEMMA ModUnique ==
    ASSUME NEW N \in Nat \ {0}, NEW q \in Nat, NEW r \in 0..(N - 1)
    PROVE  (N * q + r) % N = r
<1> DEFINE a == N * q + r
<1>1. a \in Nat
  OBVIOUS
<1>2. PICK p \in Nat, s \in 0..(N - 1) : p = a \div N /\ s = a % N /\ a = N * p + s
  BY <1>1, DivMod
<1>3. q = p
  <2>1. CASE q >= p + 1
    <3>1. N * q >= N * (p + 1)
      BY <2>1
    <3> QED
      BY <1>2, <3>1
  <2>2. CASE p >= q + 1
    <3>1. N * p >= N * (q + 1)
      BY <2>2
    <3> QED
      BY <1>2, <3>1
  <2> QED
    BY <2>1, <2>2
<1> QED
  BY <1>2, <1>3

\* A set of numbers has a least one.
LEMMA NatMin ==
    ASSUME NEW T \in SUBSET Nat, T # {}
    PROVE  \E x \in T : \A y \in T : x <= y
<1>1. PICK x \in T : \A y \in T : ~(<<y, x>> \in OpToRel(<, Nat))
  BY WFMin, NatLessThanWellFounded
<1>2. \A y \in T : <<y, x>> \in OpToRel(<, Nat) <=> y < x
  BY DEF OpToRel
<1>3. \A y \in T : ~(y < x)
  BY <1>1, <1>2, Zenon
<1> QED
  BY <1>3

\* Of a bounded set of numbers there is a greatest one.
LEMMA NatMax ==
    ASSUME NEW T \in SUBSET Nat, T # {}, NEW B \in Nat, \A x \in T : x <= B
    PROVE  \E x \in T : \A y \in T : y <= x
<1> DEFINE U == {B - x : x \in T}
<1>0. \A x \in T : B - x \in Nat
  OBVIOUS
<1>1. U \in SUBSET Nat /\ U # {}
  BY <1>0
<1>2. PICK u \in U : \A v \in U : u <= v
  BY <1>1, NatMin
<1>3. PICK x \in T : u = B - x
  BY <1>2
<1>4. \A y \in T : B - x <= B - y
  BY <1>2, <1>3
<1> QED
  BY <1>3, <1>4

\* Multiplication with a number keeps the order.
LEMMA Monotone ==
    ASSUME NEW a \in Nat, NEW b \in Nat, a <= b, NEW D \in Nat
    PROVE  (a - 1) * D <= (b - 1) * D
<1>1. PICK c \in Nat : b = a + c
  <2>1. b - a \in Nat /\ b = a + (b - a)
    OBVIOUS
  <2> QED
    BY <2>1
<1>2. (b - 1) * D = (a - 1) * D + c * D
  BY <1>1
<1>3. c * D \in Nat /\ (a - 1) * D \in Int
  OBVIOUS
<1> QED
  BY <1>2, <1>3

\* The products that are compared are integers.
LEMMA Between ==
    ASSUME NEW a \in Nat, NEW b \in Nat, NEW D \in Nat, NEW c \in Int,
           (a - 1) * D <= (b - 1) * D, (b - 1) * D <= c
    PROVE  (a - 1) * D <= c
<1>1. (a - 1) * D \in Int /\ (b - 1) * D \in Int
  OBVIOUS
<1> QED
  BY <1>1

-----------------------------------------------------------------------------
(* What the placement algorithms return *)

\* The oldest of some machines.
LEMMA OldestExists ==
    ASSUME NEW ms, ms # {}, NEW f, \A m \in ms : f[m] \in Nat
    PROVE  Oldest(ms, f) # {}
<1> DEFINE T == {f[m] : m \in ms}
<1>1. T \in SUBSET Nat /\ T # {}
  OBVIOUS
<1>2. PICK x \in T : \A y \in T : x <= y
  BY <1>1, NatMin
<1>3. PICK m \in ms : x = f[m]
  BY <1>2
<1>4. m \in Oldest(ms, f)
  BY <1>2, <1>3 DEF Oldest
<1> QED
  BY <1>4

\* The sets that are counted are finite.
LEMMA Counted ==
    ASSUME TypeOK
    PROVE  /\ IsFiniteSet(live) /\ Cardinality(live) \in Nat
           /\ IsFiniteSet(domains) /\ IsFiniteSet(read.domains)
           /\ \A d : /\ IsFiniteSet({m \in live : domainOf[m] = d})
                     /\ MachinesIn(d) \in Nat /\ MachinesIn(d) <= Cardinality(live)
<1>1. IsFiniteSet(live) /\ IsFiniteSet(domains) /\ IsFiniteSet(read.domains)
  BY FS_Subset DEF TypeOK
<1>2. Cardinality(live) \in Nat
  BY <1>1, FS_CardinalityType
<1>3. ASSUME NEW d
      PROVE  /\ IsFiniteSet({m \in live : domainOf[m] = d})
             /\ MachinesIn(d) \in Nat /\ MachinesIn(d) <= Cardinality(live)
  <2>1. {m \in live : domainOf[m] = d} \in SUBSET live
    OBVIOUS
  <2> QED
    BY <1>1, <2>1, FS_Subset, FS_CardinalityType DEF MachinesIn
<1> QED
  BY <1>1, <1>2, <1>3

\* Pigeonholes: n machines in each domain are n times the domains machines.
LEMMA Share ==
    ASSUME NEW L, IsFiniteSet(L), NEW D, IsFiniteSet(D), NEW f, NEW n \in Nat,
           \A e \in D : n <= Cardinality({m \in L : f[m] = e})
    PROVE  n * Cardinality(D) <= Cardinality(L)
<1> DEFINE In(e) == {m \in L : f[m] = e}
           OneOf(e) == CHOOSE g : g \in Injection(1..n, In(e))
           pair == [p \in (1..n) \X D |-> OneOf(p[2])[p[1]]]
<1>1. ASSUME NEW e \in D PROVE OneOf(e) \in Injection(1..n, In(e))
  <2>1. IsFiniteSet(In(e))
    BY FS_Subset
  <2> DEFINE k == Cardinality(In(e))
  <2>2. k \in Nat /\ n <= k /\ Bijection(1..k, In(e)) # {}
    BY <2>1, FS_CardinalityType DEF ExistsBijection
  <2>a. PICK g \in Bijection(1..k, In(e)) : TRUE
    BY <2>2
  <2>3. g \in [1..k -> In(e)] /\ \A i, j \in 1..k : g[i] = g[j] => i = j
    BY <2>a DEF Bijection, Injection, IsInjective
  <2>4. 1..n \in SUBSET (1..k)
    <3> HIDE DEF k
    <3> QED
      BY <2>2
  <2>5. [i \in 1..n |-> g[i]] \in Injection(1..n, In(e))
    BY <2>3, <2>4 DEF Injection, IsInjective
  <2> QED
    BY <2>5
<1>2. ASSUME NEW e \in D, NEW i \in 1..n PROVE OneOf(e)[i] \in In(e)
  BY <1>1 DEF Injection
<1>3. ASSUME NEW e \in D, NEW i \in 1..n, NEW j \in 1..n, OneOf(e)[i] = OneOf(e)[j] PROVE i = j
  BY <1>1, <1>3 DEF Injection, IsInjective
<1> HIDE DEF OneOf
<1>4. pair \in Injection((1..n) \X D, L)
  <2>1. \A p \in (1..n) \X D : p[1] \in 1..n /\ p[2] \in D /\ pair[p] \in In(p[2])
    BY <1>2
  <2>2. pair \in [(1..n) \X D -> L]
    BY <2>1
  <2>3. ASSUME NEW p \in (1..n) \X D, NEW q \in (1..n) \X D, pair[p] = pair[q]
        PROVE  p = q
    <3>1. p[2] = q[2]
      BY <2>1, <2>3
    <3>2. p[1] = q[1]
      BY <1>3, <2>1, <2>3, <3>1
    <3> QED
      BY <3>1, <3>2
  <2> QED
    BY <2>2, <2>3 DEF Injection, IsInjective
<1>5. Cardinality((1..n) \X D) <= Cardinality(L)
  BY <1>4, FS_Injection
<1>6. IsFiniteSet(1..n) /\ Cardinality(1..n) = n
  BY FS_Interval
<1>7. Cardinality((1..n) \X D) = Cardinality(1..n) * Cardinality(D)
  BY <1>6, FS_Product
<1> QED
  BY <1>5, <1>6, <1>7

\* pick counts the machines of every known domain.
LEMMA PickCounts ==
    \A d \in read.domains : pick(read.domains, live, domainOf)[d] = MachinesIn(d)
BY DEF pick, MachinesIn

\* A domain for a new machine: a known one if there is any, and none with fewer.
LEMMA FewestIsLeast ==
    ASSUME NEW d \in FailureDomainWithFewestMachines(read.domains, live, domainOf)
    PROVE  /\ read.domains # {} => d \in read.domains
           /\ read.domains = {} => d = NoFD
           /\ \A e \in read.domains : MachinesIn(d) <= MachinesIn(e)
BY PickCounts DEF FailureDomainWithFewestMachines, PickFewest

\* The machine to remove needs the upgrade.
LEMMA SelectedIsOutdated ==
    SelectMachineForScaleDown \in SUBSET MachinesNeedingUpgrade(read.spec)
<1> SUFFICES ASSUME NEW m \in SelectMachineForScaleDown
             PROVE  m \in MachinesNeedingUpgrade(read.spec)
  OBVIOUS
<1> DEFINE old == MachinesNeedingUpgrade(read.spec)
           most == FailureDomainWithMostMachines(read.domains, live, old, domainOf, created)
<1>1. PICK d \in most : m \in Oldest(InFailureDomains(old, domainOf, {d}), created)
  BY DEF SelectMachineForScaleDown, MachineInFailureDomainWithMostMachines
<1> QED
  BY <1>1 DEF Oldest, InFailureDomains

\* As long as some machine needs the upgrade there is one to remove.
LEMMA SelectedExists ==
    ASSUME TypeOK, MachinesNeedingUpgrade(read.spec) # {}
    PROVE  SelectMachineForScaleDown # {}
<1> DEFINE old == MachinesNeedingUpgrade(read.spec)
           most == FailureDomainWithMostMachines(read.domains, live, old, domainOf, created)
           unknown == old \ InFailureDomains(old, domainOf, read.domains)
<1>a. old \in SUBSET live
  BY DEF MachinesNeedingUpgrade
<1>b. old # {}
  OBVIOUS
<1> HIDE DEF old
<1>0. \A m \in old : created[m] \in Nat
  BY <1>a DEF TypeOK
<1>1. \E m \in old : domainOf[m] \in most
  <2>1. CASE unknown # {}
    <3>1. PICK m \in Oldest(unknown, created) : TRUE
      BY <1>0, <2>1, OldestExists
    <3>2. m \in unknown
      BY <3>1 DEF Oldest
    <3> QED
      BY <2>1, <3>1, <3>2 DEF FailureDomainWithMostMachines
  <2>2. CASE unknown = {}
    <3> DEFINE occupied == {c \in read.domains : \E n \in old : domainOf[n] = c}
               count == pick(read.domains, live, domainOf)
               T == {MachinesIn(c) : c \in occupied}
    <3>1. occupied # {}
      BY <1>b, <2>2 DEF InFailureDomains
    <3>2. T \in SUBSET Nat /\ T # {} /\ \A x \in T : x <= Cardinality(live)
      BY <3>1, Counted
    <3>3. PICK x \in T : \A y \in T : y <= x
      BY <3>2, NatMax, Counted
    <3>4. PICK d \in occupied : x = MachinesIn(d)
      BY <3>3
    <3>5. \A e \in occupied : MachinesIn(d) >= MachinesIn(e)
      BY <3>2, <3>3, <3>4
    <3>6. \A e \in occupied : count[d] >= count[e]
      BY <3>4, <3>5, PickCounts
    <3>7. d \in PickMost(read.domains, live, old, domainOf)
      BY <3>1, <3>4, <3>6 DEF PickMost
    <3>8. d \in most
      BY <2>2, <3>7 DEF FailureDomainWithMostMachines
    <3> QED
      BY <3>4, <3>8
  <2> QED
    BY <2>1, <2>2
<1>2. PICK m \in old : domainOf[m] \in most
  BY <1>1
<1> DEFINE there == InFailureDomains(old, domainOf, {domainOf[m]})
<1>3. there # {} /\ \A n \in there : created[n] \in Nat
  BY <1>0, <1>2 DEF InFailureDomains
<1>4. Oldest(there, created) # {}
  BY <1>3, OldestExists
<1> QED
  BY <1>2, <1>4 DEF old, SelectMachineForScaleDown, MachineInFailureDomainWithMostMachines

-----------------------------------------------------------------------------
(* Initialization *)

\* Where the i-th machine goes when there are N domains.
Cycle(i, N) == ((i - 1) % N) + 1

\* The place of the domain l in the round before.
LEMMA Cyclic ==
    ASSUME NEW N \in Nat \ {0}, NEW k \in 1..N, NEW l \in 1..N,
           NEW i \in Nat \ {0}, Cycle(i, N) = k, i # k
    PROVE  i - N - k + l \in 1..i /\ Cycle(i - N - k + l, N) = l
<1>0. i - 1 \in Nat /\ (i - 1) % N = k - 1
  BY DEF Cycle
<1>1. PICK q \in Nat : i - 1 = N * q + (k - 1)
  <2>1. i - 1 = N * ((i - 1) \div N) + ((i - 1) % N) /\ (i - 1) \div N \in Nat
    BY <1>0, DivMod
  <2>2. i - 1 = N * ((i - 1) \div N) + (k - 1)
    BY <1>0, <2>1
  <2> QED
    BY <2>1, <2>2
<1>2. q >= 1
  <2>1. q = 0 => i = k
    BY <1>1
  <2> QED
    BY <2>1
<1>3. PICK p \in Nat : q = p + 1
  BY <1>2
<1>4. N * q = N * p + N
  BY <1>3
<1>5. (i - N - k + l) - 1 = N * p + (l - 1)
  BY <1>1, <1>4
<1>6. (N * p + (l - 1)) % N = l - 1
  BY ModUnique
<1>7. N * p \in Nat
  OBVIOUS
<1> QED
  BY <1>1, <1>4, <1>5, <1>6, <1>7 DEF Cycle

\* As many different elements as the set has are all of them.
LEMMA OneEach ==
    ASSUME NEW n \in Nat, NEW S, IsFiniteSet(S), Cardinality(S) = n,
           NEW f \in [1..n -> S], \A i, j \in 1..n : i # j => f[i] # f[j]
    PROVE  \A x \in S : \E i \in 1..n : f[i] = x
<1>1. f \in Injection(1..n, S)
  BY DEF Injection, IsInjective
<1>2. Cardinality(1..n) = n
  BY FS_Interval
<1>3. f \in Surjection(1..n, S)
  BY <1>1, <1>2, FS_Injection
<1> QED
  BY <1>3 DEF Surjection

\* Initialization creates the machines in known domains, as many in each as in any
\* other, or one more.
LEMMA InitializeSpreads ==
    ASSUME TypeOK, Initialize
    PROVE  /\ live' \in SUBSET MachineId /\ Cardinality(live') = Replicas
           /\ domainOf' \in [MachineId -> Domain \cup {NoFD}]
           /\ hashOf' = [m \in MachineId |-> IF m \in live' THEN read.spec ELSE NoHash]
           /\ read.domains # {} => \A m \in live' : domainOf'[m] \in read.domains
           /\ \A d, e \in read.domains : MachinesIn(d)' <= MachinesIn(e)' + 1
<1> DEFINE R == 1..Replicas
           N == Cardinality(read.domains)
<1>1. PICK ms \in SUBSET MachineId :
         /\ Cardinality(ms) = Replicas
         /\ \E order \in [R -> ms],
               fds \in NFailureDomainsWithFewestMachines(read.domains, live, domainOf, Replicas) :
               /\ \A i, j \in R : i # j => order[i] # order[j]
               /\ live' = ms
               /\ domainOf' = [m \in MachineId |->
                                 IF m \in ms THEN fds[CHOOSE i \in R : order[i] = m] ELSE NoFD]
               /\ hashOf' = [m \in MachineId |-> IF m \in ms THEN read.spec ELSE NoHash]
  BY DEF Initialize
<1>2. PICK order \in [R -> ms],
           fds \in NFailureDomainsWithFewestMachines(read.domains, live, domainOf, Replicas) :
         /\ \A i, j \in R : i # j => order[i] # order[j]
         /\ live' = ms
         /\ domainOf' = [m \in MachineId |->
                           IF m \in ms THEN fds[CHOOSE i \in R : order[i] = m] ELSE NoFD]
         /\ hashOf' = [m \in MachineId |-> IF m \in ms THEN read.spec ELSE NoHash]
  BY <1>1
<1>3. IsFiniteSet(ms)
  BY FS_Subset
<1>4. \A m \in ms : \E i \in R : order[i] = m
  BY <1>1, <1>2, <1>3, OneEach
<1>5. \A i \in R : order[i] \in ms /\ domainOf'[order[i]] = fds[i]
  <2> SUFFICES ASSUME NEW i \in R PROVE order[i] \in ms /\ domainOf'[order[i]] = fds[i]
    OBVIOUS
  <2>1. (CHOOSE j \in R : order[j] = order[i]) = i
    BY <1>2
  <2>2. order[i] \in ms
    OBVIOUS
  <2> QED
    BY <1>2, <2>1, <2>2
<1>6. CASE read.domains = {}
  <2>1. fds = [i \in R |-> NoFD]
    BY <1>6 DEF NFailureDomainsWithFewestMachines, PickNFewest
  <2>2. \A m \in ms : domainOf'[m] = NoFD
    BY <1>4, <1>5, <2>1
  <2>3. domainOf' \in [MachineId -> Domain \cup {NoFD}]
    BY <1>2, <2>2
  <2> QED
    BY <1>1, <1>2, <1>6, <2>3
<1>7. CASE read.domains # {}
  <2>1. IsFiniteSet(read.domains) /\ N \in Nat \ {0}
    BY <1>7, Counted, FS_CardinalityType, FS_EmptySet
  <2>2. PICK to \in Ascending(read.domains, live, domainOf) :
           fds = [i \in R |-> to[Cycle(i, N)]]
    BY <1>7 DEF NFailureDomainsWithFewestMachines, PickNFewest, Cycle
  <2>3. to \in [1..N -> read.domains] /\ \A i, j \in 1..N : i # j => to[i] # to[j]
    BY <2>2 DEF Ascending
  <2>4. \A d \in read.domains : \E k \in 1..N : to[k] = d
    BY <2>1, <2>3, OneEach
  <2>5. \A i \in R : Cycle(i, N) \in 1..N /\ fds[i] = to[Cycle(i, N)]
    <3> SUFFICES ASSUME NEW i \in R
                 PROVE  Cycle(i, N) \in 1..N /\ fds[i] = to[Cycle(i, N)]
      OBVIOUS
    <3>1. i - 1 \in Nat
      OBVIOUS
    <3>2. (i - 1) % N \in 0..(N - 1)
      BY <2>1, <3>1, DivMod
    <3> QED
      BY <2>1, <2>2, <3>2 DEF Cycle
  <2>6. \A m \in ms : domainOf'[m] \in read.domains
    BY <1>4, <1>5, <2>3, <2>5
  <2>7. domainOf' \in [MachineId -> Domain \cup {NoFD}]
    BY <1>2, <2>6 DEF TypeOK
  <2>8. ASSUME NEW d \in read.domains, NEW e \in read.domains
        PROVE  MachinesIn(d)' <= MachinesIn(e)' + 1
    <3> DEFINE a == {m \in ms : domainOf'[m] = d}
               b == {m \in ms : domainOf'[m] = e}
               index(m) == CHOOSE i \in R : order[i] = m
    <3>1. PICK k \in 1..N, l \in 1..N : to[k] = d /\ to[l] = e
      BY <2>4, <2>8
    <3> DEFINE A == a \ {order[k]}
               f == [m \in A |-> order[index(m) - N - k + l]]
    <3>2. \A m \in A : /\ index(m) \in R /\ order[index(m)] = m
                       /\ Cycle(index(m), N) = k /\ index(m) # k
      <4> SUFFICES ASSUME NEW m \in A
                   PROVE  /\ index(m) \in R /\ order[index(m)] = m
                          /\ Cycle(index(m), N) = k /\ index(m) # k
        OBVIOUS
      <4>1. index(m) \in R /\ order[index(m)] = m
        BY <1>4
      <4>2. fds[index(m)] = d /\ index(m) # k
        BY <1>5, <4>1
      <4> QED
        BY <2>3, <2>5, <3>1, <4>1, <4>2
    <3>3. \A m \in A : index(m) - N - k + l \in R /\ f[m] \in b
      <4> SUFFICES ASSUME NEW m \in A PROVE index(m) - N - k + l \in R /\ f[m] \in b
        OBVIOUS
      <4>1. PICK i \in R : i = index(m) /\ Cycle(i, N) = k /\ i # k
        BY <3>2
      <4>2. i - N - k + l \in 1..i /\ Cycle(i - N - k + l, N) = l
        <5>1. i \in Nat \ {0} /\ N \in Nat \ {0} /\ k \in 1..N /\ l \in 1..N
          BY <2>1
        <5>2. Cycle(i, N) = k /\ i # k
          BY <4>1
        <5> HIDE DEF a, b, A, f, index, N, R
        <5> QED
          BY <5>1, <5>2, Cyclic
      <4>3. PICK j \in R : j = i - N - k + l /\ Cycle(j, N) = l
        BY <4>2
      <4>4. order[j] \in ms /\ domainOf'[order[j]] = e
        BY <1>5, <2>5, <3>1, <4>3
      <4> QED
        BY <4>1, <4>3, <4>4
    <3>4. \A m, n \in A : f[m] = f[n] => m = n
      <4> SUFFICES ASSUME NEW m \in A, NEW n \in A, f[m] = f[n] PROVE m = n
        OBVIOUS
      <4>1. PICK i \in R, j \in R : i = index(m) /\ j = index(n) /\ order[i] = m /\ order[j] = n
        BY <3>2
      <4>2. i - N - k + l \in R /\ j - N - k + l \in R
        BY <3>3, <4>1
      <4>3. order[i - N - k + l] = order[j - N - k + l]
        BY <4>1
      <4>4. i - N - k + l = j - N - k + l
        BY <1>2, <4>2, <4>3
      <4> QED
        BY <2>1, <4>1, <4>4
    <3>5. f \in Injection(A, b)
      BY <3>3, <3>4 DEF Injection, IsInjective
    <3>6. IsFiniteSet(a) /\ IsFiniteSet(b)
      BY <1>3, FS_Subset
    <3>7. Cardinality(A) <= Cardinality(b)
      BY <3>5, <3>6, FS_Injection
    <3>8. Cardinality(a) \in Nat /\ Cardinality(b) \in Nat
      BY <3>6, FS_CardinalityType
    <3>a. Cardinality(A) = IF order[k] \in a THEN Cardinality(a) - 1 ELSE Cardinality(a)
      BY <3>6, FS_RemoveElement
    <3>9. MachinesIn(d)' = Cardinality(a) /\ MachinesIn(e)' = Cardinality(b)
      BY <1>2 DEF MachinesIn
    <3> QED
      BY <3>7, <3>8, <3>9, <3>a
  <2> QED
    BY <1>1, <1>2, <2>6, <2>7, <2>8
<1> QED
  BY <1>6, <1>7

-----------------------------------------------------------------------------
(* The invariant *)

\* There is a third machine too many only if no pass may add one: more nodes than
\* replicas have joined, and were counted by the pass that runs.
Sizes ==
    /\ SizeBounded
    /\ Cardinality(live) = Replicas + 2 => Cardinality(nodes) > Replicas
    /\ running /\ live # {} =>
          /\ read.nodes <= Cardinality(live)
          /\ Cardinality(live) = Replicas + 2 => read.nodes > Replicas

\* A pass that runs has read a spec, and an outdated machine if there are any machines.
Reading ==
    running => read.spec \in Hash /\ (live # {} => MachinesNeedingUpgrade(read.spec) # {})

\* A machine with a spec that was not in use when the domains last changed was placed
\* in one of those that are reported since, and so is the next one.
Placed ==
    /\ \A m \in live : hashOf[m] \in Hash
    /\ domains # {} => \A m \in live : hashOf[m] \notin prior => domainOf[m] \in domains
    /\ running /\ read.spec \notin prior => read.domains = domains

\* While the domains do not change, a pass has read them.  Before the first edit there
\* is nothing to upgrade.
Settled ==
    /\ running => read.domains = domains
    /\ upgrades = MaxUpgrades =>
          (\A m \in live : hashOf[m] = spec) /\ (running => read.spec = spec)

IInv == TypeOK /\ Sizes /\ Reading /\ Placed /\ StaysSpread /\ (changes = MaxChanges => Settled)

\* At the start there are no machines, and no pass runs.
LEMMA InitIInv == Init => IInv
<1> SUFFICES ASSUME Init PROVE IInv
  OBVIOUS
<1>1. TypeOK
  <2>1. live \in SUBSET MachineId /\ nodes \in SUBSET live /\ clock \in Nat /\ running \in BOOLEAN
    BY DEF Init
  <2>2. /\ domainOf \in [MachineId -> Domain \cup {NoFD}] /\ created \in [MachineId -> Nat]
        /\ hashOf \in [MachineId -> Hash \cup {NoHash}]
    BY DEF Init
  <2>3. upgrades \in 0..MaxUpgrades /\ changes \in 0..MaxChanges
    BY DEF Init
  <2>4. domains \in SUBSET Domain /\ spec \in Hash /\ prior \in SUBSET Hash
    BY DEF Init
  <2>5. read \in [domains : SUBSET Domain, spec : Hash \cup {NoHash}, nodes : Nat]
    BY DEF Init, NothingRead
  <2> QED
    BY <2>1, <2>2, <2>3, <2>4, <2>5 DEF TypeOK
<1>2. Cardinality(live) = 0 /\ \A d : MachinesIn(d) = 0
  <2>1. live = {} /\ \A d : {m \in live : domainOf[m] = d} = {}
    BY DEF Init
  <2> QED
    BY <2>1, FS_EmptySet DEF MachinesIn
<1>3. Sizes /\ Reading /\ Placed /\ Settled
  BY <1>2 DEF Init, Sizes, SizeBounded, Reading, Placed, Settled
<1>4. StaysSpread
  <2>1. Cardinality(domains) \in Nat
    BY <1>1, Counted, FS_CardinalityType
  <2>2. \A d \in domains : (MachinesIn(d) - 1) * Cardinality(domains) <= Replicas + 1
    BY <1>2, <2>1
  <2> QED
    BY <1>2, <2>2 DEF StaysSpread
<1> QED
  BY <1>1, <1>3, <1>4 DEF IInv

\* A pass starts: what it reads is what is there.
LEMMA KeepsCount == ASSUME IInv, Count PROVE IInv'
<1> USE DEF IInv
<1>0. /\ UNCHANGED <<domains, spec, machineVars, prior, upgrades, changes>>
      /\ live = {} \/ MachinesNeedingUpgrade(spec) # {}
      /\ running' = TRUE
      /\ read' = [domains |-> domains, spec |-> spec, nodes |-> Cardinality(nodes)]
  BY DEF Count
<1>a. UNCHANGED <<live, nodes, domainOf, hashOf, created, clock>>
  BY <1>0 DEF machineVars
<1>1. Cardinality(nodes) \in Nat /\ Cardinality(nodes) <= Cardinality(live)
  BY Counted, FS_Subset, FS_CardinalityType DEF TypeOK
<1>2. TypeOK'
  <2>1. read' \in [domains : SUBSET Domain, spec : Hash \cup {NoHash}, nodes : Nat]
    BY <1>0, <1>1 DEF TypeOK
  <2> QED
    BY <1>0, <1>a, <2>1 DEF TypeOK
<1>3. read'.domains = domains /\ read'.spec = spec /\ read'.nodes = Cardinality(nodes)
  BY <1>0
<1>4. Sizes'
  BY <1>0, <1>1, <1>3, <1>a DEF Sizes, SizeBounded
<1>5. Reading' /\ Placed'
  BY <1>0, <1>3, <1>a DEF Reading, Placed, MachinesNeedingUpgrade, TypeOK
<1>6. StaysSpread' /\ (changes' = MaxChanges => Settled')
  BY <1>0, <1>3, <1>a DEF StaysSpread, MachinesIn, Settled
<1> QED
  BY <1>2, <1>4, <1>5, <1>6

\* A pass ends without having done anything.
LEMMA KeepsUnhealthy == ASSUME IInv, Unhealthy PROVE IInv'
<1> USE DEF IInv
<1>0. /\ UNCHANGED <<domains, spec, live, nodes, domainOf, hashOf, created, clock>>
      /\ UNCHANGED <<prior, upgrades, changes>>
      /\ running' = FALSE /\ read' = NothingRead
  BY DEF Unhealthy, EndPass, machineVars
<1>1. read' \in [domains : SUBSET Domain, spec : Hash \cup {NoHash}, nodes : Nat]
  BY <1>0 DEF NothingRead
<1>2. TypeOK'
  BY <1>0, <1>1 DEF TypeOK
<1>3. Sizes' /\ Reading' /\ Placed' /\ StaysSpread' /\ (changes' = MaxChanges => Settled')
  BY <1>0 DEF Sizes, SizeBounded, Reading, Placed, StaysSpread, MachinesIn, Settled
<1> QED
  BY <1>2, <1>3

\* The first machines are spread evenly.
LEMMA KeepsInitialize == ASSUME IInv, Initialize PROVE IInv'
<1> USE DEF IInv
<1>0. /\ UNCHANGED <<domains, spec, nodes, created, clock, prior, upgrades, changes>>
      /\ running' = FALSE /\ read' = NothingRead /\ running /\ live = {}
  BY DEF Initialize, EndPass
<1>a. /\ live' \in SUBSET MachineId /\ Cardinality(live') = Replicas
      /\ domainOf' \in [MachineId -> Domain \cup {NoFD}]
      /\ hashOf' = [m \in MachineId |-> IF m \in live' THEN read.spec ELSE NoHash]
      /\ read.domains # {} => \A m \in live' : domainOf'[m] \in read.domains
      /\ \A d, e \in read.domains : MachinesIn(d)' <= MachinesIn(e)' + 1
  BY InitializeSpreads
<1>b. read.spec \in Hash /\ \A m \in live' : hashOf'[m] = read.spec
  BY <1>0, <1>a DEF Reading
<1>1. TypeOK'
  <2>1. read' \in [domains : SUBSET Domain, spec : Hash \cup {NoHash}, nodes : Nat]
    BY <1>0 DEF NothingRead
  <2>2. hashOf' \in [MachineId -> Hash \cup {NoHash}]
    BY <1>a, <1>b
  <2>3. nodes' \in SUBSET live'
    BY <1>0 DEF TypeOK
  <2> QED
    BY <1>0, <1>a, <2>1, <2>2, <2>3 DEF TypeOK
<1>2. Sizes'
  BY <1>0, <1>a DEF Sizes, SizeBounded
<1>3. Reading' /\ Placed'
  BY <1>0, <1>a, <1>b DEF Reading, Placed
<1>4. changes' = MaxChanges => Settled' /\ read.domains = domains
  BY <1>0, <1>b DEF Settled
<1>5. StaysSpread'
  <2> SUFFICES ASSUME changes' = MaxChanges
               PROVE  /\ \A d, e \in domains : MachinesIn(d)' <= MachinesIn(e)' + 1
                      /\ \A d \in domains :
                            (MachinesIn(d)' - 1) * Cardinality(domains) <= Replicas + 1
    BY <1>0 DEF StaysSpread
  <2>1. \A d, e \in domains : MachinesIn(d)' <= MachinesIn(e)' + 1
    BY <1>4, <1>a
  <2>2. IsFiniteSet(live') /\ IsFiniteSet(domains)
    BY <1>a, Counted, FS_Subset
  <2>3. \A d : MachinesIn(d)' \in Nat /\ MachinesIn(d)' = Cardinality({m \in live' : domainOf'[m] = d})
    <3>1. \A d : IsFiniteSet({m \in live' : domainOf'[m] = d})
      BY <2>2, FS_Subset
    <3> QED
      BY <3>1, FS_CardinalityType DEF MachinesIn
  <2>4. Cardinality(domains) \in Nat
    BY <2>2, FS_CardinalityType
  <2>5. ASSUME NEW d \in domains
        PROVE  (MachinesIn(d)' - 1) * Cardinality(domains) <= Replicas + 1
    <3>1. CASE MachinesIn(d)' = 0
      BY <2>4, <3>1
    <3>2. CASE MachinesIn(d)' # 0
      <4>1. PICK n \in Nat : n = MachinesIn(d)' - 1
        BY <2>3, <3>2
      <4>2. \A e \in domains : n <= Cardinality({m \in live' : domainOf'[m] = e})
        BY <2>1, <2>3, <2>5, <4>1
      <4>3. n * Cardinality(domains) <= Cardinality(live')
        BY <2>2, <4>2, Share
      <4>4. n * Cardinality(domains) \in Nat
        BY <2>4
      <4>5. n * Cardinality(domains) <= Replicas + 1
        BY <1>a, <4>3, <4>4
      <4> QED
        BY <4>1, <4>5
    <3> QED
      BY <3>1, <3>2
  <2> QED
    BY <2>1, <2>5
<1> QED
  BY <1>0, <1>1, <1>2, <1>3, <1>4, <1>5

\* The machine that is added goes where there are fewest, which have no more than their
\* share of the others.
LEMMA KeepsScaleUp == ASSUME IInv, ScaleUp PROVE IInv'
<1> USE DEF IInv
<1>0. PICK m \in MachineId \ live,
           d \in FailureDomainWithFewestMachines(read.domains, live, domainOf),
           now \in {clock, clock + 1} :
         /\ live' = live \cup {m} /\ domainOf' = [domainOf EXCEPT ![m] = d]
         /\ hashOf' = [hashOf EXCEPT ![m] = read.spec]
         /\ created' = [created EXCEPT ![m] = now] /\ clock' = now
  BY DEF ScaleUp
<1>a. /\ UNCHANGED <<domains, spec, nodes, prior, upgrades, changes>>
      /\ running' = FALSE /\ read' = NothingRead
      /\ running /\ live # {} /\ read.nodes <= Replicas /\ nodes = live
  BY DEF ScaleUp, EndPass, Healthy
<1>b. /\ read.domains # {} => d \in read.domains
      /\ read.domains = {} => d = NoFD
      /\ \A e \in read.domains : MachinesIn(d) <= MachinesIn(e)
  BY FewestIsLeast
<1>c. read.spec \in Hash /\ MachinesNeedingUpgrade(read.spec) # {}
  BY <1>a DEF Reading
<1>1. TypeOK'
  <2>1. d \in Domain \cup {NoFD} /\ now \in Nat
    BY <1>b DEF TypeOK
  <2>2. domainOf' \in [MachineId -> Domain \cup {NoFD}] /\ created' \in [MachineId -> Nat]
    BY <1>0, <2>1 DEF TypeOK
  <2>3. hashOf' \in [MachineId -> Hash \cup {NoHash}]
    BY <1>0, <1>c DEF TypeOK
  <2>4. read' \in [domains : SUBSET Domain, spec : Hash \cup {NoHash}, nodes : Nat]
    BY <1>a DEF NothingRead
  <2> QED
    BY <1>0, <1>a, <2>1, <2>2, <2>3, <2>4 DEF TypeOK
<1>d. \A n \in live' : /\ n # m => n \in live
                       /\ domainOf'[n] = IF n = m THEN d ELSE domainOf[n]
                       /\ hashOf'[n] = IF n = m THEN read.spec ELSE hashOf[n]
  BY <1>0 DEF TypeOK
<1>2. Sizes' /\ Cardinality(live) <= Replicas + 1
  <2>1. Cardinality(live \cup {m}) = Cardinality(live) + 1 /\ Cardinality(live) \in Nat
    BY <1>0, Counted, FS_AddElement
  <2>2. read.nodes \in Nat
    BY DEF TypeOK
  <2> QED
    BY <1>0, <1>a, <2>1, <2>2 DEF Sizes, SizeBounded
<1>3. Reading' /\ Placed'
  BY <1>a, <1>b, <1>c, <1>d DEF Reading, Placed
<1>4. changes' = MaxChanges => Settled' /\ read.domains = domains /\ upgrades' # MaxUpgrades
  BY <1>a, <1>c DEF Settled, MachinesNeedingUpgrade
<1>5. StaysSpread'
  <2> SUFFICES ASSUME changes' = MaxChanges, NEW e \in domains
               PROVE  (MachinesIn(e)' - 1) * Cardinality(domains) <= Replicas + 1
    BY <1>4, <1>a DEF StaysSpread
  <2> DEFINE S == {n \in live : domainOf[n] = e}
             T == {n \in live' : domainOf'[n] = e}
  <2>0. IsFiniteSet(S) /\ m \notin S /\ IsFiniteSet(live) /\ IsFiniteSet(domains)
    BY <1>0, Counted
  <2>1. CASE e # d
    <3>1. T = S
      BY <1>0, <1>d, <2>1
    <3>2. MachinesIn(e)' = MachinesIn(e)
      BY <3>1 DEF MachinesIn
    <3> QED
      BY <1>a, <3>2 DEF StaysSpread
  <2>2. CASE e = d
    <3>1. T = S \cup {m}
      BY <1>0, <1>d, <2>2
    <3>2. Cardinality(S \cup {m}) = Cardinality(S) + 1 /\ Cardinality(S) \in Nat
      BY <2>0, FS_AddElement, FS_CardinalityType
    <3>a. MachinesIn(e)' = Cardinality(S) + 1
      BY <3>1, <3>2 DEF MachinesIn
    <3>3. MachinesIn(e)' - 1 = Cardinality(S)
      <4> HIDE DEF S
      <4> QED
        BY <3>2, <3>a
    <3>4. \A c \in domains : Cardinality(S) <= Cardinality({n \in live : domainOf[n] = c})
      BY <1>4, <1>b, <2>2 DEF MachinesIn
    <3>5. Cardinality(S) * Cardinality(domains) <= Cardinality(live)
      BY <2>0, <3>2, <3>4, Share
    <3>6. /\ Cardinality(domains) \in Nat /\ Cardinality(live) \in Nat
          /\ Cardinality(S) * Cardinality(domains) \in Nat
      BY <2>0, <3>2, FS_CardinalityType
    <3> QED
      BY <1>2, <3>3, <3>5, <3>6
  <2> QED
    BY <2>1, <2>2
<1> QED
  BY <1>1, <1>2, <1>3, <1>4, <1>5

\* A machine is removed only when there are more than Replicas.
LEMMA KeepsScaleDown == ASSUME IInv, ScaleDown PROVE IInv'
<1> USE DEF IInv
<1>0. PICK m \in SelectMachineForScaleDown :
         /\ live' = live \ {m} /\ nodes' = nodes \ {m}
         /\ domainOf' = [domainOf EXCEPT ![m] = NoFD] /\ hashOf' = [hashOf EXCEPT ![m] = NoHash]
         /\ created' = [created EXCEPT ![m] = 0]
  BY DEF ScaleDown
<1>a. /\ UNCHANGED <<domains, spec, clock, prior, upgrades, changes>>
      /\ running' = FALSE /\ read' = NothingRead
      /\ running /\ live # {} /\ read.nodes > Replicas
  BY DEF ScaleDown, EndPass
<1>b. m \in live /\ MachinesNeedingUpgrade(read.spec) # {}
  BY <1>0, SelectedIsOutdated DEF MachinesNeedingUpgrade
<1>1. TypeOK'
  <2>1. domainOf' \in [MachineId -> Domain \cup {NoFD}] /\ created' \in [MachineId -> Nat]
    BY <1>0 DEF TypeOK
  <2>2. hashOf' \in [MachineId -> Hash \cup {NoHash}]
    BY <1>0 DEF TypeOK
  <2>3. read' \in [domains : SUBSET Domain, spec : Hash \cup {NoHash}, nodes : Nat]
    BY <1>a DEF NothingRead
  <2> QED
    BY <1>0, <1>a, <2>1, <2>2, <2>3 DEF TypeOK
<1>c. \A n \in live' : n \in live /\ domainOf'[n] = domainOf[n] /\ hashOf'[n] = hashOf[n]
  BY <1>0 DEF TypeOK
<1>2. Sizes'
  <2>1. Cardinality(live') = Cardinality(live) - 1 /\ Cardinality(live) \in Nat
    BY <1>0, <1>b, Counted, FS_RemoveElement
  <2>2. read.nodes \in Nat
    BY DEF TypeOK
  <2> QED
    BY <1>a, <2>1, <2>2 DEF Sizes, SizeBounded
<1>3. Reading' /\ Placed'
  BY <1>a, <1>c DEF Reading, Placed
<1>4. changes' = MaxChanges => Settled' /\ upgrades' # MaxUpgrades
  BY <1>a, <1>b DEF Settled, MachinesNeedingUpgrade
<1>5. StaysSpread'
  <2> SUFFICES ASSUME changes' = MaxChanges, NEW e \in domains
               PROVE  (MachinesIn(e)' - 1) * Cardinality(domains) <= Replicas + 1
    BY <1>4, <1>a DEF StaysSpread
  <2> DEFINE S == {n \in live : domainOf[n] = e}
             T == {n \in live' : domainOf'[n] = e}
             D == Cardinality(domains)
  <2>1. T \in SUBSET S /\ IsFiniteSet(S)
    BY <1>c, Counted
  <2>2. Cardinality(T) <= Cardinality(S) /\ Cardinality(S) \in Nat /\ Cardinality(T) \in Nat
    BY <2>1, FS_Subset, FS_CardinalityType
  <2>3. MachinesIn(e) = Cardinality(S) /\ MachinesIn(e)' = Cardinality(T)
    BY DEF MachinesIn
  <2>4. D \in Nat
    BY Counted, FS_CardinalityType
  <2>5. (Cardinality(S) - 1) * D <= Replicas + 1
    BY <1>a, <2>3 DEF StaysSpread
  <2>6. (Cardinality(T) - 1) * D <= (Cardinality(S) - 1) * D
    BY <2>2, <2>4, Monotone
  <2> QED
    BY <2>2, <2>3, <2>4, <2>5, <2>6, Between
<1> QED
  BY <1>1, <1>2, <1>3, <1>4, <1>5

\* A node joins: there is a machine for it.
LEMMA KeepsJoin == ASSUME IInv, Join PROVE IInv'
<1> USE DEF IInv
<1>0. PICK m \in live \ nodes : nodes' = nodes \cup {m}
  BY DEF Join
<1>a. /\ UNCHANGED <<domains, spec, live, domainOf, hashOf, created, clock>>
      /\ UNCHANGED <<running, read, prior, upgrades, changes>>
  BY DEF Join
<1>1. TypeOK'
  BY <1>0, <1>a DEF TypeOK
<1>2. Cardinality(nodes') = Cardinality(nodes) + 1 /\ Cardinality(nodes) \in Nat
  BY <1>0, Counted, FS_Subset, FS_AddElement, FS_CardinalityType DEF TypeOK
<1>3. Sizes'
  BY <1>2, <1>a DEF Sizes, SizeBounded
<1>4. Reading' /\ Placed' /\ StaysSpread' /\ (changes' = MaxChanges => Settled')
  BY <1>a DEF Reading, MachinesNeedingUpgrade, Placed, StaysSpread, MachinesIn, Settled
<1> QED
  BY <1>1, <1>3, <1>4

\* The user edits the spec: the pass that runs has read the one before.
LEMMA KeepsChangeSpec == ASSUME IInv, ChangeSpec PROVE IInv'
<1> USE DEF IInv
<1>0. /\ UNCHANGED <<domains, live, nodes, domainOf, hashOf, created, clock>>
      /\ UNCHANGED <<running, read, prior, changes>>
      /\ upgrades > 0 /\ upgrades' = upgrades - 1 /\ spec' \in Hash
  BY DEF ChangeSpec, machineVars
<1>1. TypeOK' /\ upgrades' # MaxUpgrades
  BY <1>0 DEF TypeOK
<1>2. Sizes' /\ Reading' /\ Placed'
  BY <1>0 DEF Sizes, SizeBounded, Reading, MachinesNeedingUpgrade, Placed
<1>3. StaysSpread' /\ (changes' = MaxChanges => Settled')
  BY <1>0, <1>1 DEF StaysSpread, MachinesIn, Settled
<1> QED
  BY <1>1, <1>2, <1>3

\* The provider changes the domains: every hash that a machine has or will get from the
\* pass that runs is one of before.
LEMMA KeepsChangeDomains == ASSUME IInv, ChangeDomains PROVE IInv'
<1> USE DEF IInv
<1>0. /\ UNCHANGED <<spec, live, nodes, domainOf, hashOf, created, clock>>
      /\ UNCHANGED <<running, read, upgrades>>
      /\ changes > 0 /\ changes' = changes - 1
      /\ prior' = ({hashOf[m] : m \in live} \cup {spec, read.spec}) \ {NoHash}
  BY DEF ChangeDomains, machineVars
<1>1. domains' \in SUBSET Domain
  BY DEF ChangeDomains, TypeOK
<1>2. changes' \in 0..MaxChanges /\ changes' # MaxChanges
  BY <1>0 DEF TypeOK
<1>3. prior' \in SUBSET Hash
  <2>1. spec \in Hash /\ read.spec \in Hash \cup {NoHash} /\ \A m \in live : hashOf[m] \in Hash
    BY DEF TypeOK, Placed
  <2> QED
    BY <1>0, <2>1
<1>4. TypeOK'
  BY <1>0, <1>1, <1>2, <1>3 DEF TypeOK
<1>5. Sizes' /\ Reading'
  BY <1>0 DEF Sizes, SizeBounded, Reading, MachinesNeedingUpgrade
<1>6. Placed'
  <2>1. \A m \in live : hashOf[m] \in Hash /\ hashOf[m] \in prior'
    BY <1>0 DEF Placed
  <2>2. running => read.spec \in prior'
    BY <1>0 DEF Reading
  <2> QED
    BY <1>0, <2>1, <2>2 DEF Placed
<1>7. StaysSpread' /\ (changes' = MaxChanges => Settled')
  BY <1>2 DEF StaysSpread
<1> QED
  BY <1>4, <1>5, <1>6, <1>7

\* Every step keeps the invariant.
LEMMA Inductive == IInv /\ [Next]_vars => IInv'
<1> SUFFICES ASSUME IInv, [Next]_vars PROVE IInv'
  OBVIOUS
<1>1. CASE Next
  BY <1>1, KeepsCount, KeepsInitialize, KeepsUnhealthy, KeepsScaleUp, KeepsScaleDown, KeepsJoin,
     KeepsChangeSpec, KeepsChangeDomains DEF Next, Pass
<1>2. CASE UNCHANGED vars
  BY <1>2 DEF vars, machineVars, IInv, TypeOK, Sizes, SizeBounded, Reading, MachinesNeedingUpgrade,
     Placed, StaysSpread, MachinesIn, Settled
<1> QED
  BY <1>1, <1>2

\* It is an invariant of the specification.
LEMMA Invariant == Spec => []IInv
BY InitIInv, Inductive, PTL DEF Spec

-----------------------------------------------------------------------------

\* Every variable keeps its type: only machines that exist have a node.
THEOREM TypeCorrect == Spec => []TypeOK
BY Invariant, PTL DEF IInv

\* upgradeControlPlane never removes a machine below Replicas, and never adds a third
\* above, although it decides by nodes it counted before.
THEOREM SizeTheorem == Spec => []SizeBounded
BY Invariant, PTL DEF IInv, Sizes

\* While the domains stay, initialization spreads the machines evenly, and no sequence
\* of edits, surplus machines and edits taken back gives a domain more than its share of
\* Replicas + 2 machines, rounded up: for any number of domains, replicas and upgrades.
THEOREM SpreadTheorem == Spec => []StaysSpread
BY Invariant, PTL DEF IInv

\* When all machines are up to date with a spec that came into use after the domains last
\* changed, every machine is in a domain the provider reports.
THEOREM EvacuatedTheorem == Spec => []Evacuated
<1>1. IInv => Evacuated
  BY DEF IInv, Placed, Evacuated, MachinesNeedingUpgrade
<1> QED
  BY <1>1, Invariant, PTL

\* The error "failed to pick control plane Machine" is never met in an upgrade.
THEOREM AlwaysPicksTheorem == Spec => []AlwaysPicks
<1>1. IInv => AlwaysPicks
  BY SelectedExists DEF IInv, Reading, AlwaysPicks
<1> QED
  BY <1>1, Invariant, PTL

=============================================================================
