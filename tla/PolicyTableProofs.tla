-------------------------- MODULE PolicyTableProofs --------------------------
(* Lemmas about the decisions of PolicyTable, for every cluster and policy:  *)
(* the caps of a partition, the answers of the plugin's lookup and of its    *)
(* Python twin, and the table that is looked up.                             *)
EXTENDS PolicyTable, SetLemmas

-----------------------------------------------------------------------------
(* A partition's caps are those of nodes it has, and none of its nodes is    *)
(* bigger.                                                                   *)
LEMMA NodeShape ==
    ASSUME NEW n \in Nodes
    PROVE  /\ Total[n].cpus \in Nat /\ Total[n].mem \in Nat /\ Total[n].cpus > 0
           /\ PartsOf[n] \subseteq Partitions
  BY ClusterAssumption DEF Shapes

(* A partition's caps are the largest CPU count and the largest memory of    *)
(* its nodes.                                                                *)
LEMMA CapsOfPartition ==
    ASSUME NEW p \in Partitions
    PROVE  /\ caps[p].cpus \in Nat /\ caps[p].mem \in Nat
           /\ \A n \in Members(p) : Total[n].cpus <= caps[p].cpus /\ Total[n].mem <= caps[p].mem
           /\ \E n \in Members(p) : Total[n].cpus = caps[p].cpus
           /\ \E n \in Members(p) : Total[n].mem = caps[p].mem
  <1> DEFINE M == Members(p)
             cpus == [n \in Nodes |-> Total[n].cpus]
             mem == [n \in Nodes |-> Total[n].mem]
  <1>1. M \subseteq Nodes /\ M # {}
    BY PartitionsAssumption DEF Members
  <1>2. \A n \in M : cpus[n] \in Nat /\ mem[n] \in Nat
    BY <1>1, NodeShape
  <1>3. /\ IsFiniteSet(M)
        /\ Image(cpus, M) = {Total[o].cpus : o \in M}
        /\ Image(mem, M) = {Total[o].mem : o \in M}
    BY <1>1, ClusterAssumption, FS_Subset DEF Image
  <1>4. caps[p].cpus = Max(Image(cpus, M)) /\ caps[p].mem = Max(Image(mem, M))
    BY <1>3 DEF caps
  <1>5. M # {} /\ \A n \in M : cpus[n] \in Int /\ mem[n] \in Int
    BY <1>1, <1>2
  <1> HIDE DEF M, cpus, mem
  <1>6. /\ \E n \in M : cpus[n] = Max(Image(cpus, M))
        /\ \A n \in M : cpus[n] <= Max(Image(cpus, M))
    BY <1>3, <1>5, LargestValue
  <1>7. /\ \E n \in M : mem[n] = Max(Image(mem, M))
        /\ \A n \in M : mem[n] <= Max(Image(mem, M))
    BY <1>3, <1>5, LargestValue
  <1>8. /\ \E n \in M : cpus[n] = caps[p].cpus
        /\ \A n \in M : cpus[n] <= caps[p].cpus
        /\ \E n \in M : mem[n] = caps[p].mem
        /\ \A n \in M : mem[n] <= caps[p].mem
    BY <1>4, <1>6, <1>7
  <1> QED
    BY <1>1, <1>2, <1>8 DEF M, cpus, mem

(* Some partition has the most memory, so that the last resort of the lookup *)
(* has an answer.                                                            *)
LEMMA RoomiestExists == Roomiest # {} /\ Roomiest \subseteq Partitions
  <1> DEFINE mem == [p \in Partitions |-> caps[p].mem]
  <1>1. Partitions # {} /\ IsFiniteSet(Partitions)
    BY PartitionsAssumption, ClusterAssumption
  <1>2. \A p \in Partitions : mem[p] \in Int
    BY CapsOfPartition
  <1>3. \E p \in Partitions : \A o \in Partitions : mem[p] >= mem[o]
    <2> HIDE DEF mem
    <2>1. PICK p \in Partitions : mem[p] = Max(Image(mem, Partitions))
      BY <1>1, <1>2, LargestValue
    <2>2. \A o \in Partitions : mem[o] <= mem[p]
      BY <1>1, <1>2, <2>1, LargestValue
    <2> QED
      BY <1>2, <2>2
  <1> QED
    BY <1>3 DEF Roomiest

(* A node that holds a job makes its partitions ones whose caps hold it, and *)
(* the lookup's filter by caps then lets nothing else through.               *)
LEMMA CapsHold ==
    ASSUME NEW job, job.cpus \in Nat, job.mem \in Nat, NEW p \in feasible(job)
    PROVE  p \in Partitions /\ Holds(caps[p], job)
  <1>1. PICK n \in Nodes : Holds(Total[n], job) /\ p \in PartsOf[n]
    BY DEF feasible
  <1>2. p \in Partitions /\ n \in Members(p)
    BY <1>1, NodeShape DEF Members
  <1>3. Total[n].cpus <= caps[p].cpus /\ Total[n].mem <= caps[p].mem
    BY <1>2, CapsOfPartition
  <1> QED
    BY <1>1, <1>2, <1>3, NodeShape, CapsOfPartition DEF Holds, Shapes

(* What keep_feasible can answer.                                            *)
LEMMA KeptAnswers ==
    ASSUME NEW parts, parts \subseteq Partitions, NEW job, job.cpus \in Nat, job.mem \in Nat,
           NEW kept \in keep_feasible(parts, job)
    PROVE  /\ kept # {} /\ kept \subseteq Partitions
           /\ (\E p \in Partitions : Holds(caps[p], job)) =>
                 \A p \in kept : Holds(caps[p], job)
  BY RoomiestExists DEF keep_feasible

(* The plugin's bucket and the scorer's are the same: the number of edges    *)
(* passed before the first one that is not.                                  *)
LEMMA BucketTwins ==
    ASSUME NEW num \in Nat, NEW den \in Nat, NEW edges \in Seq(Nat)
    PROVE  /\ bucket(num, den, edges) = bucket_index(num, den, edges)
           /\ bucket(num, den, edges) \in 0 .. Len(edges)
  <1> DEFINE Passed(k) == \A e \in 1 .. k : num >= edges[e] * den
             K == {k \in 0 .. Len(edges) : Passed(k)}
             D == {k \in DOMAIN edges : Passed(k)}
  <1>1. Len(edges) \in Nat /\ DOMAIN edges = 1 .. Len(edges)
    OBVIOUS
  <1>2. K \subseteq Int /\ IsFiniteSet(K) /\ K # {}
    <2>1. IsFiniteSet(0 .. Len(edges))
      BY <1>1, FS_Interval
    <2>2. 0 \in K
      BY <1>1
    <2>3. K \in SUBSET (0 .. Len(edges)) /\ K \subseteq Int
      OBVIOUS
    <2> HIDE DEF K
    <2> QED
      BY <2>1, <2>2, <2>3, FS_Subset
  <1> DEFINE m == Max(K)
  <1>3. m \in K /\ \A k \in K : k <= m
    <2> HIDE DEF K
    <2> QED
      BY <1>2, MaxOfFinite
  <1>4. D = 1 .. m
    <2>1. m \in Nat /\ m <= Len(edges) /\ Passed(m)
      BY <1>1, <1>3
    <2>2. ASSUME NEW k \in D PROVE k \in 1 .. m
      <3>1. k \in 1 .. Len(edges)
        BY <1>1
      <3>2. k \in K
        BY <1>1
      <3>3. k <= m
        BY <1>3, <3>2
      <3> HIDE DEF m
      <3> QED
        BY <1>1, <2>1, <3>1, <3>3
    <2>3. ASSUME NEW k \in 1 .. m PROVE k \in D
      <3>1. 1 .. k \subseteq 1 .. m /\ k \in DOMAIN edges
        <4> HIDE DEF m
        <4> QED
          BY <1>1, <2>1
      <3> QED
        BY <2>1, <3>1
    <2> QED
      BY <2>2, <2>3
  <1>5. Cardinality(1 .. m) = m /\ m \in 0 .. Len(edges)
    <2>1. m \in Nat /\ m \in 0 .. Len(edges)
      BY <1>1, <1>3
    <2> HIDE DEF m
    <2> QED
      BY <2>1, FS_Interval
  <1>6. bucket(num, den, edges) = Cardinality(D) /\ bucket_index(num, den, edges) = m
    BY DEF bucket, bucket_index
  <1> QED
    BY <1>4, <1>5, <1>6

(* The plugin's lookup and its Python twin agree on every job that some      *)
(* partition's caps hold.                                                    *)
THEOREM LookupTwins ==
    ASSUME NEW rows, NEW job, job.cpus \in Nat, job.mem \in Nat, \E p \in Partitions : Holds(caps[p], job)
    PROVE  packed_choice(rows, job) = {plugin_lookup(rows, job)}
  <1>1. MpcEdges \in Seq(Nat) /\ CpuEdges \in Seq(Nat) /\ job.cpus \in Nat /\ job.mem \in Nat
    BY PolicyAssumption
  <1>2. /\ bucket(job.mem, job.cpus, MpcEdges) = bucket_index(job.mem, job.cpus, MpcEdges)
        /\ bucket(job.cpus, 1, CpuEdges) = bucket_index(job.cpus, 1, CpuEdges)
    BY <1>1, BucketTwins
  <1> DEFINE parts == rows[<<bucket_index(job.mem, job.cpus, MpcEdges),
                             bucket_index(job.cpus, 1, CpuEdges)>>]
  <1>3. packed_choice(rows, job) = keep_feasible(parts, job)
    BY <1>2 DEF packed_choice
  <1> QED
    BY <1>3 DEF keep_feasible, plugin_lookup

-----------------------------------------------------------------------------
(* pick_node: a pinned node has room, and none with room is in a partition   *)
(* that ranks higher than the best of the pinned one.                        *)
LEMMA PinnedNode ==
    ASSUME NEW job, NEW allowed, allowed \subseteq Partitions, NEW free,
           NEW n \in pick_node(job, allowed, free)
    PROVE  /\ n \in Nodes /\ Holds(free[n], job) /\ allowed \cap PartsOf[n] # {}
           /\ \A o \in Nodes : Holds(free[o], job) =>
                 \A p \in allowed \cap PartsOf[o] :
                    \E q \in allowed \cap PartsOf[n] : Tier[q] >= Tier[p]
  <1> DEFINE roomy == {m \in Nodes : Holds(free[m], job) /\ allowed \cap PartsOf[m] # {}}
             ps == UNION {allowed \cap PartsOf[m] : m \in roomy}
             tiers == {0} \cup {Tier[p] : p \in ps}
             top == Max(tiers)
  <1>1. n \in Candidates(job, allowed, free)
    BY DEF pick_node
  <1>2. n \in roomy /\ \E q \in allowed \cap PartsOf[n] : Tier[q] = top
    BY <1>1 DEF Candidates
  <1>3. tiers \subseteq Int /\ IsFiniteSet(tiers) /\ tiers # {}
    <2>1. IsFiniteSet(ps) /\ ps \subseteq Partitions
      BY ClusterAssumption, FS_Subset
    <2>2. {Tier[p] : p \in ps} = Image(Tier, ps) /\ {Tier[p] : p \in ps} \subseteq Int
      BY <2>1, ClusterAssumption DEF Image
    <2>3. IsFiniteSet(Image(Tier, ps))
      <3> HIDE DEF ps
      <3> QED
        BY <2>1, FiniteImage
    <2> DEFINE I == {Tier[p] : p \in ps}
    <2>4. I \subseteq Int /\ IsFiniteSet(I)
      BY <2>2, <2>3
    <2> HIDE DEF I
    <2>5. IsFiniteSet({0} \cup I)
      BY <2>4, FS_Union, FS_Singleton
    <2> QED
      BY <2>4, <2>5 DEF I
  <1>4. top \in Int /\ \A t \in tiers : t <= top
    <2> HIDE DEF tiers
    <2> QED
      BY <1>3, MaxOfFinite
  <1>5. ASSUME NEW o \in Nodes, Holds(free[o], job), NEW p \in allowed \cap PartsOf[o]
        PROVE  \E q \in allowed \cap PartsOf[n] : Tier[q] >= Tier[p]
    <2>1. o \in roomy /\ p \in ps
      BY <1>5
    <2>2. Tier[p] \in tiers
      BY <2>1
    <2>3. Tier[p] <= top /\ Tier[p] \in Int
      BY <1>3, <1>4, <2>2
    <2> HIDE DEF top
    <2> QED
      BY <1>2, <2>3
  <1> QED
    BY <1>2, <1>5

-----------------------------------------------------------------------------
(* phi, over the shapes a node can be left with: a natural number, which     *)
(* grows with the shape.                                                     *)
MostCpus == Max({Total[n].cpus : n \in Nodes})
MostMem == Max({Total[n].mem : n \in Nodes})
Term(c, m, d) == d.w * Min({c * DemandScale, m * (DemandScale \div d.q)})

(* Products of naturals, which the SMT solver does not multiply by itself.   *)
LEMMA Products ==
    ASSUME NEW a \in Nat, NEW b \in Nat, NEW k \in Nat
    PROVE  a * k \in Nat /\ (a <= b => a * k <= b * k /\ k * a <= k * b)
  OBVIOUS

(* The part of Phi due to one demand is a natural that grows with the CPUs   *)
(* and the memory.                                                           *)
LEMMA TermGrows ==
    ASSUME NEW c \in Nat, NEW m \in Nat, NEW d \in Demand
    PROVE  /\ Term(c, m, d) \in Nat
           /\ \A c2, m2 \in Nat : c <= c2 /\ m <= m2 => Term(c, m, d) <= Term(c2, m2, d)
  <1>1. d.q \in Nat \ {0} /\ d.w \in Nat /\ DemandScale \in Nat
    BY PolicyAssumption
  <1> DEFINE k == DemandScale \div d.q
  <1>2. k \in Nat
    BY <1>1
  <1> HIDE DEF k
  <1> DEFINE Least(x, y) == Min({x * DemandScale, y * k})
  <1>3. \A x, y \in Nat : /\ x * DemandScale \in Nat /\ y * k \in Nat
                          /\ Least(x, y) \in Nat
                          /\ Least(x, y) <= x * DemandScale /\ Least(x, y) <= y * k
                          /\ Least(x, y) = x * DemandScale \/ Least(x, y) = y * k
    <2> TAKE x \in Nat, y \in Nat
    <2>1. x * DemandScale \in Nat /\ y * k \in Nat
      BY <1>1, <1>2, Products
    <2> QED
      BY <2>1, MinOfTwo
  <1>4. \A x, y \in Nat : Term(x, y, d) = d.w * Least(x, y)
    BY DEF Term, k
  <1> HIDE DEF Least
  <1>5. Term(c, m, d) \in Nat
    <2>1. Least(c, m) \in Nat /\ Term(c, m, d) = d.w * Least(c, m)
      BY <1>3, <1>4
    <2> QED
      BY <1>1, <2>1
  <1>6. ASSUME NEW c2 \in Nat, NEW m2 \in Nat, c <= c2, m <= m2
        PROVE  Term(c, m, d) <= Term(c2, m2, d)
    <2>1. c * DemandScale <= c2 * DemandScale /\ m * k <= m2 * k
      BY <1>1, <1>2, <1>6, Products
    <2>2. Least(c, m) <= Least(c2, m2) /\ Least(c, m) \in Nat /\ Least(c2, m2) \in Nat
      <3>1. Least(c, m) <= c * DemandScale /\ Least(c, m) <= m * k
        BY <1>3
      <3>2. Least(c2, m2) = c2 * DemandScale \/ Least(c2, m2) = m2 * k
        BY <1>3
      <3>3. /\ Least(c, m) \in Nat /\ Least(c2, m2) \in Nat
            /\ c * DemandScale \in Nat /\ c2 * DemandScale \in Nat
            /\ m * k \in Nat /\ m2 * k \in Nat
        BY <1>3
      <3> QED
        BY <2>1, <3>1, <3>2, <3>3
    <2> QED
      BY <1>1, <1>4, <2>2, Products
  <1> QED
    BY <1>5, <1>6

(* No node is larger than the table of Phi.                                  *)
LEMMA MostOfNodes ==
    /\ MostCpus \in Nat /\ MostMem \in Nat
    /\ \A n \in Nodes : Total[n].cpus <= MostCpus /\ Total[n].mem <= MostMem
  <1> DEFINE cpus == [n \in Nodes |-> Total[n].cpus]
             mem == [n \in Nodes |-> Total[n].mem]
  <1>1. Nodes # {} /\ IsFiniteSet(Nodes)
    BY PartitionsAssumption, ClusterAssumption
  <1>2. \A n \in Nodes : cpus[n] \in Nat /\ mem[n] \in Nat /\ cpus[n] \in Int /\ mem[n] \in Int
    BY NodeShape
  <1>3. MostCpus = Max(Image(cpus, Nodes)) /\ MostMem = Max(Image(mem, Nodes))
    BY DEF MostCpus, MostMem, Image
  <1> HIDE DEF cpus, mem
  <1>4. /\ \E n \in Nodes : cpus[n] = MostCpus
        /\ \A n \in Nodes : cpus[n] <= MostCpus
    BY <1>1, <1>2, <1>3, LargestValue
  <1>5. /\ \E n \in Nodes : mem[n] = MostMem
        /\ \A n \in Nodes : mem[n] <= MostMem
    BY <1>1, <1>2, <1>3, LargestValue
  <1> QED
    BY <1>2, <1>4, <1>5 DEF cpus, mem

(* Phi is a natural that grows with the CPUs and the memory.                 *)
LEMMA PhiGrows ==
    ASSUME NEW c2 \in 0 .. MostCpus, NEW m2 \in 0 .. MostMem,
           NEW c \in 0 .. c2, NEW m \in 0 .. m2
    PROVE  Phi[c][m] \in Nat /\ Phi[c2][m2] \in Nat /\ Phi[c][m] <= Phi[c2][m2]
  <1> DEFINE v == [d \in Demand |-> Term(c, m, d)]
             w == [d \in Demand |-> Term(c2, m2, d)]
  <1>0. /\ c \in Nat /\ m \in Nat /\ c2 \in Nat /\ m2 \in Nat /\ c <= c2 /\ m <= m2
        /\ c \in 0 .. MostCpus /\ m \in 0 .. MostMem
    BY MostOfNodes
  <1>1. \A x \in 0 .. MostCpus, y \in 0 .. MostMem :
           Phi[x][y] = Sum([d \in Demand |-> Term(x, y, d)], Demand)
    BY DEF Phi, Term, SumFunction, Sum, MostCpus, MostMem
  <1>2. Phi[c][m] = Sum(v, Demand) /\ Phi[c2][m2] = Sum(w, Demand)
    BY <1>0, <1>1
  <1>3. \A d \in Demand : v[d] \in Nat /\ w[d] \in Nat /\ v[d] <= w[d]
    BY <1>0, TermGrows
  <1>4. IsFiniteSet(Demand)
    BY PolicyAssumption
  <1> HIDE DEF v, w
  <1>5. Sum(v, Demand) \in Nat /\ Sum(w, Demand) \in Nat
    BY <1>3, <1>4, SumNat
  <1>6. Sum(v, Demand) <= Sum(w, Demand)
    BY <1>3, <1>4, SumLeq
  <1> QED
    BY <1>2, <1>5, <1>6

Roomy(job, free) == {p \in Partitions : \E n \in Nodes : Holds(free[n], job) /\ p \in PartsOf[n]}

(* What a job takes of a node's phi is no less than nothing and no more than *)
(* the node has.                                                             *)
THEOREM LossBounds ==
    ASSUME NEW job, job.cpus \in Nat, job.mem \in Nat, NEW free, Within(free),
           NEW n \in Nodes, Holds(free[n], job)
    PROVE  /\ Loss(free[n], job) \in Int /\ phi_node(free[n]) \in Int
           /\ 0 <= Loss(free[n], job) /\ Loss(free[n], job) <= phi_node(free[n])
  <1> DEFINE c2 == free[n].cpus
             m2 == free[n].mem
             c == c2 - job.cpus
             m == m2 - job.mem
  <1>1. c2 \in Nat /\ m2 \in Nat /\ c2 <= Total[n].cpus /\ m2 <= Total[n].mem
    BY DEF Within, Shapes
  <1>2. c2 \in 0 .. MostCpus /\ m2 \in 0 .. MostMem
    BY <1>1, MostOfNodes, NodeShape
  <1>3. c \in 0 .. c2 /\ m \in 0 .. m2
    BY <1>1 DEF Holds
  <1>4. Phi[c][m] \in Nat /\ Phi[c2][m2] \in Nat /\ Phi[c][m] <= Phi[c2][m2]
    BY <1>2, <1>3, PhiGrows
  <1>5. phi_node(free[n]) = Phi[c2][m2] /\ Loss(free[n], job) = Phi[c2][m2] - Phi[c][m]
    BY DEF Loss, phi_node, Minus
  <1> QED
    BY <1>4, <1>5

(* The partitions that are scored are those with room, and each costs what   *)
(* the job takes of one of its nodes.                                        *)
LEMMA Scores ==
    ASSUME NEW job, job.cpus \in Nat, job.mem \in Nat, NEW free, Within(free)
    PROVE  LET cost == score_partitions(job, free)
           IN  /\ DOMAIN cost = Roomy(job, free)
               /\ Roomy(job, free) \subseteq feasible(job)
               /\ \A p \in Roomy(job, free) : \E n \in Nodes :
                     Holds(free[n], job) /\ cost[p] = Loss(free[n], job)
  <1> DEFINE cost == score_partitions(job, free)
             places == Places(job, free)
  <1>1. \A n \in Nodes : Holds(free[n], job) => Holds(Total[n], job) /\ PartsOf[n] \subseteq Partitions
    BY NodeShape DEF Within, Shapes, Holds
  <1>2. Roomy(job, free) \subseteq feasible(job)
    BY <1>1 DEF Roomy, feasible
  <1>3. \A p, n : <<p, n>> \in places <=>
           p \in Roomy(job, free) /\ n \in Nodes /\ Holds(free[n], job) /\ p \in PartsOf[n]
    BY <1>1, <1>2 DEF Places, Roomy
  <1>4. \A pl \in places : pl = <<pl[1], pl[2]>>
    BY DEF Places
  <1>5. Roomy(job, free) = {pl[1] : pl \in places}
    <2>1. ASSUME NEW p \in Roomy(job, free) PROVE \E pl \in places : p = pl[1]
      <3>1. PICK n \in Nodes : Holds(free[n], job) /\ p \in PartsOf[n]
        BY DEF Roomy
      <3>2. <<p, n>> \in places
        BY <1>3, <3>1
      <3> QED
        BY <3>2
    <2>2. ASSUME NEW pl \in places PROVE pl[1] \in Roomy(job, free)
      BY <1>3, <1>4
    <2> QED
      BY <2>1, <2>2
  <1>6. DOMAIN cost = Roomy(job, free)
    BY <1>5 DEF score_partitions
  <1>7. ASSUME NEW p \in Roomy(job, free)
        PROVE  \E n \in Nodes : Holds(free[n], job) /\ cost[p] = Loss(free[n], job)
    <2> DEFINE X == {pl \in places : pl[1] = p}
               f == [pl \in X |-> Loss(free[pl[2]], job)]
               S == Image(f, X)
    <2>1. cost[p] = Min({Loss(free[pl[2]], job) : pl \in X})
      BY <1>5 DEF score_partitions
    <2>2. S = {Loss(free[pl[2]], job) : pl \in X}
      BY DEF Image
    <2>3. X # {}
      BY <1>5
    <2>4. IsFiniteSet(X)
      <3>1. places \subseteq Partitions \X Nodes
        BY <1>1, <1>2, CapsHold DEF Places
      <3>2. IsFiniteSet(Partitions \X Nodes)
        BY ClusterAssumption, FS_Product
      <3>3. X \in SUBSET (Partitions \X Nodes)
        BY <3>1
      <3> HIDE DEF X
      <3> QED
        BY <3>2, <3>3, FS_Subset
    <2>5. \A pl \in X : pl[2] \in Nodes /\ Holds(free[pl[2]], job) /\ f[pl] = Loss(free[pl[2]], job)
      BY <1>3, <1>4
    <2>6. \A pl \in X : f[pl] \in Int
      BY <2>5, LossBounds
    <2>7. IsFiniteSet(S) /\ S \subseteq Int /\ S # {}
      <3> HIDE DEF X, f
      <3> QED
        BY <2>3, <2>4, <2>6, FiniteImage DEF Image
    <2>8. Min(S) \in S
      <3> HIDE DEF S
      <3> QED
        BY <2>7, MinOfFinite
    <2>9. PICK pl \in X : Min(S) = f[pl]
      BY <2>8 DEF Image
    <2> QED
      BY <2>1, <2>2, <2>5, <2>9
  <1> QED
    BY <1>2, <1>6, <1>7

(* There is a largest partition.                                             *)
LEMMA LargestExists == largest_partitions # {} /\ largest_partitions \subseteq Partitions
  <1> DEFINE M == {n \in Nodes : PartsOf[n] # {}}
             mem == [n \in Nodes |-> Total[n].mem]
  <1>1. M # {} /\ IsFiniteSet(M)
    BY PartitionsAssumption, ClusterAssumption, FS_Subset
  <1>2. \A n \in M : mem[n] \in Int
    BY NodeShape
  <1>3. PICK n \in M : \A o \in M : mem[o] <= mem[n]
    <2> HIDE DEF M, mem
    <2>1. PICK n \in M : mem[n] = Max(Image(mem, M))
      BY <1>1, <1>2, LargestValue
    <2> QED
      BY <1>1, <1>2, <2>1, LargestValue
  <1>4. PICK p \in PartsOf[n] : p \in Partitions
    BY <1>3, NodeShape
  <1>5. n \in Members(p) /\ \A o \in Nodes : PartsOf[o] # {} => Total[n].mem >= Total[o].mem
    BY <1>3, <1>4, NodeShape DEF Members
  <1> QED
    BY <1>4, <1>5 DEF largest_partitions

(* choose: never nothing; only partitions that could hold the job, when any  *)
(* could; only partitions with room, when any has; and all of these when no  *)
(* node has more phi left than the tolerance.                                *)
THEOREM ChooseAdmits ==
    ASSUME NEW job, job.cpus \in Nat, job.mem \in Nat, NEW free, Within(free)
    PROVE  LET row == choose(job, free)
               roomy == Roomy(job, free)
           IN  /\ row # {} /\ row \subseteq Partitions
               /\ feasible(job) # {} => row \subseteq feasible(job)
               /\ roomy # {} => row \subseteq roomy
               /\ (\A n \in Nodes : phi_node(free[n]) <= Tolerance * job.cpus) => roomy \subseteq row
  <1> DEFINE cost == score_partitions(job, free)
             roomy == Roomy(job, free)
             row == choose(job, free)
             slack == Tolerance * job.cpus
  <1>1. /\ DOMAIN cost = roomy /\ roomy \subseteq feasible(job)
        /\ \A p \in roomy : \E n \in Nodes : Holds(free[n], job) /\ cost[p] = Loss(free[n], job)
    BY Scores
  <1>2. feasible(job) \subseteq Partitions
    BY CapsHold
  <1>3. slack \in Nat
    BY PolicyAssumption
  <1>4. CASE roomy = {}
    <2>1. row = IF feasible(job) # {} THEN feasible(job) ELSE largest_partitions
      BY <1>1, <1>4 DEF choose
    <2> QED
      BY <1>2, <1>4, <2>1, LargestExists
  <1>5. CASE roomy # {}
    <2>1. row = {p \in roomy : \A o \in roomy : cost[p] <= cost[o] + slack}
      BY <1>1, <1>5 DEF choose
    <2>2. \A p \in roomy : cost[p] \in Int
      BY <1>1, LossBounds
    <2>3. PICK p \in roomy : \A o \in roomy : cost[p] <= cost[o]
      <3>1. IsFiniteSet(roomy)
        BY ClusterAssumption, FS_Subset DEF Roomy
      <3> HIDE DEF cost, roomy
      <3>2. PICK p \in roomy : cost[p] = Min(Image(cost, roomy))
        BY <1>5, <2>2, <3>1, SmallestValue
      <3> QED
        BY <1>5, <2>2, <3>1, <3>2, SmallestValue
    <2>4. p \in row
      BY <1>3, <2>1, <2>2, <2>3
    <2>5. ASSUME \A n \in Nodes : phi_node(free[n]) <= slack, NEW q \in roomy
          PROVE  q \in row
      <3>1. cost[q] <= slack
        <4>1. PICK n \in Nodes : Holds(free[n], job) /\ cost[q] = Loss(free[n], job)
          BY <1>1
        <4> QED
          BY <1>3, <2>5, <4>1, LossBounds
      <3>2. \A o \in roomy : 0 <= cost[o]
        BY <1>1, LossBounds
      <3> HIDE DEF cost, slack
      <3> QED
        BY <1>3, <2>1, <2>2, <3>1, <3>2
    <2> QED
      BY <1>1, <1>2, <1>5, <2>1, <2>4, <2>5
  <1> QED
    BY <1>4, <1>5
=============================================================================
