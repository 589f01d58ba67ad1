---------------------------- MODULE PolicyTable ----------------------------
(***************************************************************************)
(* The decisions of policy.py, and those of sjp.lua that mirror them, as   *)
(* operators: which partitions suit a shape (choose), the table of answers *)
(* for representative shapes (build_table), the lookup of a real job in it *)
(* (plugin_lookup and its Lua twin), the free space a job of some length   *)
(* may count on, and which node it is pinned to (pick_node).               *)
(*                                                                         *)
(* A shape is [cpus, mem].  Ratios are compared by cross-multiplication;   *)
(* phi is scaled by DemandScale, so that it is an integer where the code   *)
(* has a float.  The table's third index, the walltime, is left out:       *)
(* build_table gives every walltime the same answer.                       *)
(***************************************************************************)
EXTENDS Integers, Sequences, FiniteSets, FiniteSetsExt, Functions

CONSTANTS
    Nodes, Partitions,
    Total,          \* [Nodes -> Shapes]: what a node has
    PartsOf,        \* [Nodes -> SUBSET Partitions]: the batch partitions it is in
    Tier,           \* [Partitions -> Nat]: PriorityTier
    NodeOrder,      \* [Nodes -> Nat]: the order of the nodes' names
    PartOrder,      \* [Partitions -> Nat]: the order sjpd lists the partitions in
    Demand,         \* policy.demand: a set of [q, w], memory per CPU and weight
    DemandScale,    \* a common multiple of the q
    Tolerance,      \* policy.tolerance, in units of phi per CPU
    MpcEdges, CpuEdges,     \* policy.buckets.mem_per_cpu and .cpus
    MinGain,        \* pin.min_gain, in units of phi
    RatioGain,      \* exp(pin.min_ratio_gain), as <<numerator, denominator>>
    NoLimit         \* the limit of a job without one

Shapes == [cpus : Nat, mem : Nat]

Ascending(edges) == \A k \in 1 .. Len(edges) - 1 : edges[k] < edges[k + 1]

ASSUME ClusterAssumption ==
    /\ Total \in [Nodes -> Shapes] /\ \A n \in Nodes : Total[n].cpus > 0
    /\ PartsOf \in [Nodes -> SUBSET Partitions] /\ Tier \in [Partitions -> Nat]
    /\ NodeOrder \in [Nodes -> Nat] /\ PartOrder \in [Partitions -> Nat]
    /\ IsFiniteSet(Nodes) /\ IsFiniteSet(Partitions)

(* A partition without a usable node is not in the maps the code works on. *)
ASSUME PartitionsAssumption ==
    Partitions # {} /\ \A p \in Partitions : \E n \in Nodes : p \in PartsOf[n]

ASSUME PolicyAssumption ==
    /\ Demand \subseteq [q : Nat \ {0}, w : Nat] /\ IsFiniteSet(Demand)
    /\ DemandScale \in Nat \ {0} /\ \A d \in Demand : DemandScale % d.q = 0
    /\ Tolerance \in Nat /\ MinGain \in Nat \ {0}
    /\ MpcEdges \in Seq(Nat) /\ CpuEdges \in Seq(Nat)
    /\ MpcEdges # <<>> /\ CpuEdges # <<>>
    /\ Ascending(MpcEdges) /\ Ascending(CpuEdges) /\ CpuEdges[1] > 0
    /\ RatioGain[1] >= RatioGain[2] /\ RatioGain[2] > 0
    /\ NoLimit \notin Nat

(* Slurm takes a limit of zero for none before anyone sees the job.         *)
Limits == (Nat \ {0}) \cup {NoLimit}

-----------------------------------------------------------------------------
(* Shapes.                                                                  *)
Holds(shape, job) == shape.cpus >= job.cpus /\ shape.mem >= job.mem
Minus(shape, job) == [cpus |-> shape.cpus - job.cpus, mem |-> shape.mem - job.mem]
AtLeastZero_signed(shape) == shape
AtLeastZero(shape) ==
    [cpus |-> Max({0, shape.cpus}), mem |-> Max({0, shape.mem})]

(* A free map that shows of no node more than it has.                       *)
Within(free) ==
    /\ free \in [Nodes -> Shapes]
    /\ \A n \in Nodes : free[n].cpus <= Total[n].cpus /\ free[n].mem <= Total[n].mem

Members(p) == {n \in Nodes : p \in PartsOf[n]}

(* phi_node: the free CPUs of a shape that the demand mix could use.  Phi   *)
(* tabulates it over the shapes a node can be left with.                    *)
Phi == [c \in 0 .. Max({Total[n].cpus : n \in Nodes}) |->
           [m \in 0 .. Max({Total[n].mem : n \in Nodes}) |->
               SumFunction([d \in Demand |->
                   d.w * Min({c * DemandScale, m * (DemandScale \div d.q)})])]]
phi_node(shape) == Phi[shape.cpus][shape.mem]
Loss(shape, job) == phi_node(shape) - phi_node(Minus(shape, job))

(* feasible: the partitions with a node that is big enough, were it empty.  *)
feasible(job) == UNION {PartsOf[n] : n \in {o \in Nodes : Holds(Total[o], job)}}

(* largest_partitions: the last resort for a job that no node can hold.     *)
largest_partitions ==
    {p \in Partitions : \E n \in Members(p) : \A o \in Nodes :
        PartsOf[o] # {} => Total[n].mem >= Total[o].mem}

(* score_partitions: the places that have room, each a node of a feasible   *)
(* partition; the cost of a partition is the least loss among its places.   *)
Places(job, free) ==
    {pl \in feasible(job) \X {n \in Nodes : Holds(free[n], job)} : pl[1] \in PartsOf[pl[2]]}
score_partitions(job, free) ==
    LET places == Places(job, free)
    IN  [p \in {pl[1] : pl \in places} |->
            Min({Loss(free[pl[2]], job) : pl \in {x \in places : x[1] = p}})]

(* choose: the partitions within the tolerance of the cheapest; if none has *)
(* room, those that could hold the job; if none could, the largest.         *)
choose_cheapestOnly(job, free) ==
    LET cost == score_partitions(job, free)
    IN  IF DOMAIN cost # {}
        THEN {p \in DOMAIN cost : \A o \in DOMAIN cost : cost[p] <= cost[o]}
        ELSE IF feasible(job) # {} THEN feasible(job) ELSE largest_partitions
choose(job, free) ==
    LET cost == score_partitions(job, free)
    IN  IF DOMAIN cost # {}
        THEN {p \in DOMAIN cost : \A o \in DOMAIN cost :
                cost[p] <= cost[o] + Tolerance * job.cpus}
        ELSE IF feasible(job) # {} THEN feasible(job) ELSE largest_partitions

-----------------------------------------------------------------------------
(* The table.  A bucket is <<i, j>>: how many of the edges the job's memory *)
(* per CPU, and its CPUs, have passed.                                      *)
Buckets == (0 .. Len(MpcEdges)) \X (0 .. Len(CpuEdges))

(* bucket_index of value = num / den, and the plugin's own bucket.          *)
bucket_index(num, den, edges) ==
    Max({k \in 0 .. Len(edges) : \A e \in 1 .. k : num >= edges[e] * den})
bucket_above(num, den, edges) ==
    Cardinality({k \in DOMAIN edges : \A e \in 1 .. k : num > edges[e] * den})
bucket(num, den, edges) ==
    Cardinality({k \in DOMAIN edges : \A e \in 1 .. k : num >= edges[e] * den})

(* _reps: twice the representative of bucket i, which may end in a half.    *)
TwiceRep(edges, i) ==
    IF i = 0 THEN (IF edges[1] > 1 THEN edges[1] ELSE 2)
    ELSE IF i = Len(edges) THEN 3 * edges[i]
    ELSE edges[i] + edges[i + 1]

(* bucket_shape: the CPUs are cut to an integer, the memory is that of the  *)
(* representative before the cut.                                           *)
bucket_shape(b) ==
    LET mpc2 == TwiceRep(MpcEdges, b[1])  cpus2 == TwiceRep(CpuEdges, b[2])
    IN  [cpus |-> cpus2 \div 2, mem |-> (mpc2 * cpus2) \div 4]

build_table(free) == [b \in Buckets |-> choose(bucket_shape(b), free)]

(* caps: the most CPUs and the most memory of any node of a partition.      *)
caps == [p \in Partitions |->
            [cpus |-> Max({Total[n].cpus : n \in Members(p)}),
             mem  |-> Max({Total[n].mem : n \in Members(p)})]]

Roomiest == {p \in Partitions : \A o \in Partitions : caps[p].mem >= caps[o].mem}

(* plugin_lookup: max() over a dict takes the first of several largest.     *)
plugin_lookup(rows, job) ==
    LET parts == rows[<<bucket_index(job.mem, job.cpus, MpcEdges),
                        bucket_index(job.cpus, 1, CpuEdges)>>]
        kept  == {p \in parts : Holds(caps[p], job)}
        other == {p \in Partitions : Holds(caps[p], job)}
    IN  IF kept # {} THEN kept
        ELSE IF other # {} THEN other
        ELSE {p \in Roomiest : \A o \in Roomiest : PartOrder[p] <= PartOrder[o]}

(* keep_feasible: the possible answers, since pairs() visits the largest    *)
(* partitions in any order.                                                 *)
keep_feasible_asLookedUp(parts, job) == {parts}
keep_feasible(parts, job) ==
    LET out == {p \in parts : Holds(caps[p], job)}
        any == {p \in Partitions : Holds(caps[p], job)}
    IN  IF out # {} THEN {out}
        ELSE IF any # {} THEN {any}
        ELSE {{p} : p \in Roomiest}

(* packed_choice, of a table that is not stale.                             *)
packed_choice(rows, job) ==
    keep_feasible(rows[<<bucket(job.mem, job.cpus, MpcEdges),
                         bucket(job.cpus, 1, CpuEdges)>>], job)

-----------------------------------------------------------------------------
(* Free space and time.  "later" maps a node to the reservations that are   *)
(* still to start on it: a set of [name, start, cpus, mem].                 *)
SharesOf(rs) == [cpus |-> SumFunction([r \in rs |-> r.cpus]),
                 mem  |-> SumFunction([r \in rs |-> r.mem])]

(* reserved_before and free_for, for a job of this limit that starts now;   *)
(* a limit of zero minutes is taken for none.                               *)
reserved_before(later, now, limit) ==
    [n \in Nodes |-> SharesOf({r \in later[n] :
        limit \in {0, NoLimit} \/ r.start < now + limit})]
free_for(free, later, now, limit) ==
    [n \in Nodes |->
        AtLeastZero(Minus(free[n], reserved_before(later, now, limit)[n]))]

(* free_of, the plugin's own.                                               *)
free_of_limited(free, later, now, limit, n) ==
    AtLeastZero(Minus(free[n], SharesOf({r \in later[n] :
        limit # NoLimit /\ r.start < now + limit})))
free_of(free, later, now, limit, n) ==
    AtLeastZero(Minus(free[n], SharesOf({r \in later[n] :
        limit = NoLimit \/ r.start < now + limit})))

(* has_room, of the free space that the job can count on.                   *)
has_room(job, parts, free) ==
    \E n \in Nodes : Holds(free[n], job) /\ parts \cap PartsOf[n] # {}

(* The node's free memory per CPU against the job's: the larger of the two  *)
(* ratios over the smaller, as a fraction.  The code takes its logarithm.   *)
Mismatch(shape, job) ==
    LET a == shape.mem * job.cpus  b == job.mem * shape.cpus
    IN  [num |-> Max({a, b}), den |-> Min({a, b})]
Closer(x, y) == x.num * y.den < y.num * x.den
AsClose(x, y) == x.num * y.den = y.num * x.den
CloserByRatioGain(x, y) == y.num * x.den * RatioGain[2] >= x.num * y.den * RatioGain[1]

(* pick_node's candidates: the nodes with room in the highest-ranked        *)
(* allowed partitions that have one.                                        *)
Candidates_anyTier(job, allowed, free) ==
    {n \in Nodes : Holds(free[n], job) /\ allowed \cap PartsOf[n] # {}}
Candidates(job, allowed, free) ==
    LET roomy == {n \in Nodes : Holds(free[n], job) /\ allowed \cap PartsOf[n] # {}}
        top   == Max({0} \cup {Tier[p] : p \in UNION {allowed \cap PartsOf[n] : n \in roomy}})
    IN  {n \in roomy : \E p \in allowed \cap PartsOf[n] : Tier[p] = top}

(* pick_node: {} when the job is not pinned, else the one node.  Nodes that *)
(* lose less than MinGain more than the best contend; of these the closest  *)
(* in memory per CPU wins, then the smaller loss, then the name.            *)
pick_node(job, allowed, free) ==
    LET cands == Candidates(job, allowed, free)
        loss  == [n \in cands |-> Loss(free[n], job)]
        mis   == [n \in cands |-> Mismatch(free[n], job)]
        near  == {n \in cands : \A o \in cands : loss[n] - loss[o] < MinGain}
        Before(n, o) ==
            \/ Closer(mis[n], mis[o])
            \/ AsClose(mis[n], mis[o]) /\ loss[n] < loss[o]
            \/ /\ AsClose(mis[n], mis[o]) /\ loss[n] = loss[o]
               /\ NodeOrder[n] <= NodeOrder[o]
        best  == {n \in near : \A o \in near : Before(n, o)}
        WorthIt(n) == \E o \in cands : \/ loss[o] - loss[n] >= MinGain
                                       \/ CloserByRatioGain(mis[n], mis[o])
    IN  IF Cardinality(cands) < 2 THEN {} ELSE {n \in best : WorthIt(n)}
=============================================================================
