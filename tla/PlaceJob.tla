------------------------------ MODULE PlaceJob ------------------------------
(***************************************************************************)
(* Placement over time: jobs run and end, reservations begin and end; sjpd *)
(* polls the queue and the nodes, counts reservations as taken (reserve)   *)
(* and builds the table; the plugin places and pins a submitted job from   *)
(* it (sjp.place), and a dry run says what it would have done              *)
(* (Daemon.evaluate).  The decisions themselves are PolicyTable's.         *)
(*                                                                         *)
(* Threads, files, faults and the age of the data in seconds are           *)
(* PlacementTable's subject: here a table is written the moment it is      *)
(* scored, and time passes in steps as long as the shortest reservation.   *)
(***************************************************************************)
EXTENDS PolicyTable

CONSTANTS
    Reservations,   \* a set of [name, nodes, start, end]: nodes maps each node it has
                    \* to the cores it has there, a number or Whole
    Whole,          \* the cores of a reservation of the whole node
    Threads,        \* ThreadsPerCore
    Split,          \* a number divisible by as many nodes as a job may have
    JobTypes,       \* what is submitted: a set of [cpus, mem, limit, opts]
    OtherTypes,     \* jobs Slurm starts by itself: a set of [at, limit], at mapping
                    \* each node to the share it gives the job
    ReservedTypes,  \* jobs run in a reservation: a set of [resv, at, limit]
    Cap,            \* MaxTRESPU of the QOS the submitted jobs' user names, or None
    MemFloor,       \* 512 MB, in the plugin and in a dry run
    DryNoLimit,     \* slurm._mins of UNLIMITED: the fortnight a dry run takes for no limit
    PolicyMaxAge, PinMaxAge,
    MaxNow,         \* bound: when a behaviour ends
    MaxStarts,      \* bound: how many jobs start in a behaviour
    None

(* What a submitted job may have besides its size and limit.  Jobs neither  *)
(* the plugin nor a dry run looks at (GPUs, --constraint, -N 2) are left    *)
(* out; mem of a job without a memory request is Slurm's default.           *)
Options ==
    {"interactive", "reservation", "allmem",    \* salloc, --reservation, --mem=0
     "nomem",                                   \* no memory request
     "nodelist", "exclude", "array", "gres", "exclusive", "begin", "held",
     "comment",                                 \* the site's AdminComment
     "tasks", "onenode",                        \* several tasks, without and with -N 1
     "defaultqos"}                              \* no --qos; the user's default has no cap

Names == {r.name : r \in Reservations}
QOSes == {"capped", "default"}
Allocations == [Nodes -> Shapes]
Later == [name : Names, start : Nat, cpus : Nat, mem : Nat]

ASSUME TimeAssumption ==
    /\ \A r \in Reservations : /\ DOMAIN r.nodes \subseteq Nodes
                               /\ \A n \in DOMAIN r.nodes : r.nodes[n] \in Nat \cup {Whole}
                               /\ r.start \in Nat /\ r.end \in Nat /\ r.start < r.end
    /\ \A r, s \in Reservations : r.name = s.name => r = s
    /\ IsFiniteSet(Reservations) /\ Whole \notin Nat /\ Threads \in Nat \ {0}
    /\ Split \in Nat \ {0} /\ \A k \in 1 .. Cardinality(Nodes) : Split % k = 0
    /\ JobTypes \subseteq [cpus : Nat \ {0}, mem : Nat \ {0}, limit : Limits,
                           opts : SUBSET Options]
    /\ OtherTypes \subseteq [at : Allocations, limit : Limits]
    /\ ReservedTypes \subseteq [resv : Names, at : Allocations, limit : Limits]
    /\ Cap \in Nat \cup {None} /\ MemFloor \in Nat \ {0} /\ DryNoLimit \in Nat \ {0}
    /\ PolicyMaxAge \in Nat /\ PinMaxAge \in Nat
    /\ MaxNow \in Nat /\ MaxStarts \in Nat

VARIABLES
    now,        \* the time
    running,    \* Slurm: the jobs that run
    starts,     \* how many more may start
    queue,      \* Shared.jobs, as last read: the jobs in reservations, and the
                \* CPUs the user's jobs have in either QOS
    nodes,      \* Shared.nodes, after reserve(): free space and later, or None
    table,      \* the policy table, or None
    room        \* the plugin's copy of the table's nodes, decremented by pins

vars == <<now, running, starts, queue, nodes, table, room>>

-----------------------------------------------------------------------------
(* Slurm.  The submitted jobs are of one user and in one of two QOSes, all  *)
(* others of other users.                                                   *)
Ids == 1 .. MaxStarts
Running == [id : Ids, cpus : Nat, at : Allocations, end : Nat,
            resv : Names \cup {None}, qos : QOSes \cup {None}]

(* "current" is history: the nodes that the data shows as they are, or as   *)
(* fuller than they are.                                                    *)
NodeData == [free : [Nodes -> Shapes], later : [Nodes -> SUBSET Later],
             at : Nat, current : SUBSET Nodes]
TableData == [rows : [Buckets -> SUBSET Partitions],
              free : [Nodes -> Shapes], later : [Nodes -> SUBSET Later],
              left : Int \cup {None}, main : QOSes \cup {None},
              at : Nat, current : SUBSET Nodes]

ASSUME NoneAssumption == None \notin Int \cup Names \cup NodeData \cup TableData

Nothing == [cpus |-> 0, mem |-> 0]
Alone(n, share) == [o \in Nodes |-> IF o = n THEN share ELSE Nothing]
NodesOf(at) == {n \in Nodes : at[n] # Nothing}

CpusOf(js) == SumFunction([j \in js |-> j.cpus])
CpusOn(n, js) == SumFunction([j \in js |-> j.at[n].cpus])
MemOn(n, js) == SumFunction([j \in js |-> j.at[n].mem])
EndOf(limit) == IF limit = NoLimit THEN MaxNow + 1 ELSE now + limit

ReservedCpus(r, n) ==
    IF r.nodes[n] = Whole THEN Total[n].cpus
    ELSE Min({Total[n].cpus, r.nodes[n] * Threads})
Active(r, t) == r.start <= t /\ t < r.end
ReservationsOf(n) == {r \in Reservations : n \in DOMAIN r.nodes}
HeldAt(n, t) == {r \in ReservationsOf(n) : Active(r, t)}
Reserved(n, rs) == SumFunction([r \in rs |-> ReservedCpus(r, n)])
JobsOf(js, rs) == {j \in js : j.resv \in {r.name : r \in rs}}

(* Slurm starts a job on a node if, for as long as it may run, its CPUs and *)
(* memory are there beside the running jobs and the reserved CPUs; jobs of  *)
(* a reservation run on the reserved CPUs.                                  *)
CanStart(n, share, limit) ==
    \A t \in now .. Min({EndOf(limit) - 1, MaxNow}) :
        LET there == {j \in running : t = now \/ j.end > t}
            held  == HeldAt(n, t)
        IN  /\ CpusOn(n, there \ JobsOf(there, held)) + Reserved(n, held) + share.cpus
                  <= Total[n].cpus
            /\ MemOn(n, there) + share.mem <= Total[n].mem

(* The id tells equal jobs apart.                                           *)
Started(at, limit, resv, qos) ==
    LET With(i) == [id |-> i, cpus |-> SumFunction([n \in Nodes |-> at[n].cpus]),
                    at |-> at, end |-> EndOf(limit), resv |-> resv, qos |-> qos]
    IN  With(Min({i \in Ids : With(i) \notin running}))

UserCpus == [q \in QOSes |-> CpusOf({j \in running : j.qos = q})]
QosOf(job) == IF "defaultqos" \in job.opts THEN "default" ELSE "capped"
UnderCap(job) ==
    Cap # None /\ QosOf(job) = "capped" => UserCpus["capped"] + job.cpus <= Cap

Outdated(data, on) ==
    IF data = None THEN None ELSE [data EXCEPT !.current = @ \ on]

Init ==
    /\ now = 0 /\ running = {} /\ starts = MaxStarts
    /\ queue = [reserved |-> {}, used |-> [q \in QOSes |-> 0]]
    /\ nodes = None /\ table = None /\ room = None

(* A job ends, at its limit at the latest.                                  *)
JobEnds ==
    /\ \E j \in running : running' = running \ {j}
    /\ UNCHANGED <<now, starts, queue, nodes, table, room>>

Tick ==
    /\ now < MaxNow /\ now' = now + 1
    /\ \A j \in running : j.end > now
    /\ UNCHANGED <<running, starts, queue, nodes, table, room>>

(* Slurm starts a job that the plugin has not pinned.                       *)
StartOther ==
    /\ starts > 0 /\ starts' = starts - 1
    /\ \E job \in OtherTypes :
          /\ \A n \in NodesOf(job.at) : CanStart(n, job.at[n], job.limit)
          /\ running' = running \cup {Started(job.at, job.limit, None, None)}
          /\ nodes' = Outdated(nodes, NodesOf(job.at))
          /\ table' = Outdated(table, NodesOf(job.at))
    /\ UNCHANGED <<now, queue, room>>

(* ... or one in a reservation, which leaves with the reservation.          *)
StartReserved ==
    /\ starts > 0 /\ starts' = starts - 1
    /\ \E r \in Reservations, job \in ReservedTypes :
          /\ job.resv = r.name /\ Active(r, now) /\ EndOf(job.limit) <= r.end
          /\ \A n \in NodesOf(job.at) :
                /\ n \in DOMAIN r.nodes
                /\ CpusOn(n, JobsOf(running, {r})) + job.at[n].cpus <= ReservedCpus(r, n)
                /\ MemOn(n, running) + job.at[n].mem <= Total[n].mem
          /\ running' = running \cup {Started(job.at, job.limit, r.name, None)}
          /\ nodes' = Outdated(nodes, NodesOf(job.at))
          /\ table' = Outdated(table, NodesOf(job.at))
    /\ UNCHANGED <<now, queue, room>>

-----------------------------------------------------------------------------
(* sjpd.                                                                    *)
InReservations == {j \in running : j.resv # None}

PollQueue ==
    /\ queue' = [reserved |-> InReservations, used |-> UserCpus]
    /\ UNCHANGED <<now, running, starts, nodes, table, room>>

(* reserve: an active reservation takes its CPUs, less those its own jobs   *)
(* use, and memory at the node's own memory per CPU; one still to come is   *)
(* kept in "later".  Of a job's CPUs every node of it is taken to have the  *)
(* same part, counted here in Splits of a CPU; round() takes a half to the  *)
(* even number.                                                             *)
MemShare(n, cpus) == (cpus * Total[n].mem) \div Total[n].cpus
Round(splits) ==
    LET whole == splits \div Split  rest == 2 * (splits % Split)
    IN  IF rest > Split \/ (rest = Split /\ whole % 2 = 1) THEN whole + 1 ELSE whole
UsedBy_undivided(r, n) ==
    SumFunction([j \in {x \in JobsOf(queue.reserved, {r}) : n \in NodesOf(x.at)} |->
                    j.cpus * Split])
UsedBy(r, n) ==
    SumFunction([j \in {x \in JobsOf(queue.reserved, {r}) : n \in NodesOf(x.at)} |->
                    j.cpus * (Split \div Cardinality(NodesOf(j.at)))])
LeftOf(r, n) == Max({0, Round(ReservedCpus(r, n) * Split - UsedBy(r, n))})
Allocated(n) ==
    LET held == HeldAt(n, now)
    IN  [cpus |-> CpusOn(n, running) + SumFunction([r \in held |-> LeftOf(r, n)]),
         mem  |-> MemOn(n, running)
                  + SumFunction([r \in held |-> MemShare(n, LeftOf(r, n))])]
LaterOn(n) ==
    {[name |-> r.name, start |-> r.start, cpus |-> ReservedCpus(r, n),
      mem |-> MemShare(n, ReservedCpus(r, n))] :
        r \in {x \in ReservationsOf(n) : x.start > now}}

(* What reserve counts on a node is there: none of the reservations' jobs   *)
(* has ended since the queue was read, or has less than its even part there.*)
PartsAreThere(n) ==
    \A r \in HeldAt(n, now) : \A j \in JobsOf(queue.reserved, {r}) :
        n \in NodesOf(j.at) =>
            j \in running /\ j.cpus <= j.at[n].cpus * Cardinality(NodesOf(j.at))

PollNodes ==
    /\ nodes' = [free    |-> [n \in Nodes |-> AtLeastZero(Minus(Total[n], Allocated(n)))],
                 later   |-> [n \in Nodes |-> LaterOn(n)],
                 at      |-> now,
                 current |-> {n \in Nodes : PartsAreThere(n)}]
    /\ UNCHANGED <<now, running, starts, queue, table, room>>

(* user_room: what is left under the cap, for a user with running jobs in   *)
(* the QOS, and the QOS most of the user's CPUs are in; of two with as many *)
(* it is the one squeue happens to list first.                              *)
user_room(used) == IF Cap = None \/ used["capped"] = 0 THEN None ELSE Cap - used["capped"]
user_qos(used) ==
    LET most == {q \in QOSes : used[q] > 0 /\ \A o \in QOSes : used[q] >= used[o]}
    IN  IF most = {} THEN {None} ELSE most

(* score_once, and the plugin's first look at the new table.                *)
Score ==
    /\ nodes # None /\ now - nodes.at < PolicyMaxAge
    /\ \E main \in user_qos(queue.used) :
          table' = [rows |-> build_table(nodes.free), free |-> nodes.free,
                    later |-> nodes.later, left |-> user_room(queue.used), main |-> main,
                    at |-> now, current |-> nodes.current]
    /\ room' = nodes.free
    /\ UNCHANGED <<now, running, starts, queue, nodes>>

-----------------------------------------------------------------------------
(* The plugin.  job_mem: a job without a memory request is taken for one of *)
(* MemFloor.                                                                *)
job_mem(job) == IF "nomem" \in job.opts THEN MemFloor ELSE job.mem
Asked(job) == [cpus |-> job.cpus, mem |-> job_mem(job)]

(* A job is placed in parts if the table is recent and some node there has  *)
(* room for it now.                                                         *)
Recent == table # None /\ now - table.at <= PolicyMaxAge /\ now - table.at <= PinMaxAge
RoomFor(job) ==
    [n \in Nodes |-> free_of(room, table.later, now, job.limit, n)]
Declined == {"interactive", "reservation", "allmem"}

Placed(job) ==
    IF Recent /\ job.opts \cap Declined = {}
    THEN {parts \in packed_choice(table.rows, Asked(job)) :
            has_room(Asked(job), parts, RoomFor(job))}
    ELSE {}

(* pin_eligible; without --qos, by the cap of the QOS most of the user's    *)
(* CPUs are in.                                                             *)
NotPinned == {"nomem", "nodelist", "exclude", "array", "comment", "gres", "tasks",
              "begin", "held", "exclusive"}
UserLeft(job) ==
    IF "defaultqos" \in job.opts /\ table.main # "capped" THEN None ELSE table.left
pin_eligible(job) ==
    /\ job.opts \cap NotPinned = {}
    /\ UserLeft(job) # None => job.cpus <= UserLeft(job)
PinOf(job, parts) ==
    IF pin_eligible(job) THEN pick_node(Asked(job), parts, RoomFor(job)) ELSE {}

(* place: a pin is counted against the plugin's copy; the job starts there  *)
(* at once if Slurm can start it.  A job placed without a pin changes       *)
(* nothing here: it is one of those Slurm starts by itself.                 *)
Submit ==
    \E job \in JobTypes : \E parts \in Placed(job) : \E n \in PinOf(job, parts) :
        /\ starts > 0
        /\ room' = [room EXCEPT ![n] = Minus(@, Asked(job))]
        /\ IF CanStart(n, Asked(job), job.limit) /\ UnderCap(job)
           THEN /\ running' = running \cup
                       {Started(Alone(n, Asked(job)), job.limit, None, QosOf(job))}
                /\ starts' = starts - 1
           ELSE UNCHANGED <<running, starts>>
        /\ nodes' = Outdated(nodes, {n})
        /\ UNCHANGED <<now, queue, table>>

Next ==
    \/ JobEnds \/ Tick \/ StartOther \/ StartReserved
    \/ PollQueue \/ PollNodes \/ Score \/ Submit

Spec == Init /\ [][Next]_vars

-----------------------------------------------------------------------------
(* A dry run's account of a job it first sees pending, in observe mode and  *)
(* from the same table: squeue shows no limit as a fortnight, and the least *)
(* memory is MemFloor.  Its pin_eligible is policy.py's, which knows the    *)
(* node list, held jobs and those to begin later from squeue, and the cap   *)
(* of the QOS the job is in.                                                *)
DryLimit(job) == IF job.limit = NoLimit THEN DryNoLimit ELSE job.limit
Seen(job) == [cpus |-> job.cpus, mem |-> Max({job.mem, MemFloor})]
DryNotPinned == {"array", "tasks", "onenode", "nodelist", "begin", "held"}
dry_eligible_held(job) ==
    /\ job.opts \cap (DryNotPinned \ {"held"}) = {}
    /\ QosOf(job) = "capped" /\ table.left # None => job.cpus <= table.left
dry_eligible(job) ==
    /\ job.opts \cap DryNotPinned = {}
    /\ QosOf(job) = "capped" /\ table.left # None => job.cpus <= table.left
evaluate(job) ==
    LET would  == plugin_lookup(table.rows, Seen(job))
        nf     == free_for(table.free, table.later, now, DryLimit(job))
        placed == has_room(Seen(job), would, nf)
    IN  [placed |-> placed,
         would  |-> IF placed THEN would ELSE {},
         pin    |-> IF placed /\ dry_eligible(job) THEN pick_node(Seen(job), would, nf)
                    ELSE {}]

-----------------------------------------------------------------------------
TypeOK ==
    /\ now \in 0 .. MaxNow /\ starts \in 0 .. MaxStarts
    /\ running \subseteq Running
    /\ queue \in [reserved : SUBSET Running, used : [QOSes -> Nat]]
    /\ nodes \in NodeData \cup {None} /\ table \in TableData \cup {None}
    /\ table # None => room \in [Nodes -> Shapes]

(* The stronger facts behind the properties below, which a step preserves:  *)
(* the jobs that run were counted when they started;                        *)
JobsCounted ==
    /\ IsFiniteSet(running) /\ Cardinality(running) <= MaxStarts - starts
    /\ IsFiniteSet(queue.reserved)

(* those of a reservation keep to its time and its CPUs;                    *)
JobsKeepTo(r) ==
    /\ \A j \in JobsOf(running, {r}) : j.end <= r.end
    /\ \A n \in Nodes : CpusOn(n, JobsOf(running, {r}))
                           <= (IF n \in DOMAIN r.nodes THEN ReservedCpus(r, n) ELSE 0)
ReservationsKept == \A r \in Reservations : JobsKeepTo(r)

(* "later" is what was still to come of the reservations at some moment, no *)
(* node has more free than it has, and the table is that of its free space; *)
LaterSince(a) ==
    [n \in Nodes |-> {[name |-> r.name, start |-> r.start, cpus |-> ReservedCpus(r, n),
                       mem |-> MemShare(n, ReservedCpus(r, n))] :
                         r \in {x \in ReservationsOf(n) : x.start > a}}]
DataKnown ==
    /\ nodes # None => /\ \E a \in 0 .. now : nodes.later = LaterSince(a)
                       /\ Within(nodes.free)
    /\ table # None => /\ \E a \in 0 .. now : table.later = LaterSince(a)
                       /\ Within(table.free) /\ Within(room)
                       /\ table.rows = build_table(table.free)

(* and current data leaves room, on a node it shows any free CPUs or memory *)
(* of, for all that takes some of it and is not in "later": the reservations*)
(* that had begun, and the jobs that are not theirs.                        *)
Begun(n, a) == {r \in HeldAt(n, now) : r.start <= a}
Spares(n, free, js, rs) ==
    /\ free.cpus > 0 =>
          free.cpus + CpusOn(n, js \ JobsOf(js, rs)) + Reserved(n, rs) <= Total[n].cpus
    /\ free.mem > 0 => free.mem + MemOn(n, js) <= Total[n].mem
Covers(free, on, a) == \A n \in on : Spares(n, free[n], running, Begun(n, a))
CurrentCovers ==
    /\ nodes # None =>
          \E a \in 0 .. now : nodes.later = LaterSince(a) /\ Covers(nodes.free, nodes.current, a)
    /\ table # None =>
          \E a \in 0 .. now : table.later = LaterSince(a) /\ Covers(room, table.current, a)

(* The user had running jobs when the queue was read, and no more since.    *)
CapKnown == table.left # None /\ UserCpus["capped"] <= Cap - table.left

(* What place() does not look at and Slurm does: the memory of a job that   *)
(* does not ask for any, and the options that make it need more than space. *)
OnlySpace(job) ==
    job.opts \cap {"nomem", "nodelist", "exclude", "gres", "exclusive", "begin", "held"} = {}

(* "place() places a batch job only where it can start": Slurm can start it *)
(* this moment on a node of its partitions, on the pinned node if it has    *)
(* one, and let it run to its limit beside every reservation: those active  *)
(* when the nodes were read, those begun since and those still to come.     *)
(* Unless it was placed for a node that the data does not show as it is:    *)
(* something else has started there since, a job of a reservation had ended *)
(* since the queue was read, or has less there than an even part of its     *)
(* CPUs.  And it is pinned only if the user's CPU cap lets it start, as far *)
(* as it is known.                                                          *)
PlacedCanStart ==
    table # None =>
        \A job \in JobTypes : \A parts \in Placed(job) :
            /\ OnlySpace(job) => \E n \in Nodes :
                  /\ parts \cap PartsOf[n] # {} /\ Holds(RoomFor(job)[n], Asked(job))
                  /\ n \in table.current => CanStart(n, job, job.limit)
            /\ \A n \in PinOf(job, parts) :
                  /\ n \in table.current => CanStart(n, job, job.limit)
                  /\ CapKnown => UnderCap(job)

(* The lookup has an answer for every job, and when any node is big enough  *)
(* for the job the answer has a partition with such a node, though the set  *)
(* was chosen for the bucket's representative, which may be smaller: "The   *)
(* plugin filters the looked-up set by the job's real size", against "each  *)
(* partition's largest node".  It holds where every partition has a node    *)
(* with both the most CPUs and the most memory of the partition, which run  *)
(* PlaceJob_caps does without.                                              *)
AnswerHoldsJob ==
    table # None => \A job \in {Asked(j) : j \in JobTypes} :
        \A parts \in packed_choice(table.rows, job) :
            parts # {} /\ (feasible(job) # {} => parts \cap feasible(job) # {})

(* A dry run reports what the plugin does with the job: the partitions, if  *)
(* it is placed, and the node.  (plugin_lookup is "Python twin of           *)
(* lua/sjp.lua's packed_choice + keep_feasible"; policy.pin_eligible        *)
(* "Mirrors the plugin's pin_eligible as far as squeue can tell".)  It      *)
(* cannot report jobs that the plugin declines for what squeue does not     *)
(* show, nor those smaller than MemFloor or of no stated memory, which the  *)
(* two take for different sizes; and the node only where squeue shows what  *)
(* the plugin goes by.  Pins counted since the table was read are the       *)
(* plugin's alone.                                                          *)
SizeShown(job) == job.opts \cap (Declined \cup {"nomem"}) = {} /\ job.mem >= MemFloor
RulesShown(job) ==
    job.opts \cap {"exclude", "comment", "gres", "exclusive", "onenode", "defaultqos"} = {}
DryRunAgrees ==
    Recent /\ room = table.free => \A job \in JobTypes : SizeShown(job) =>
        LET dry == evaluate(job)
        IN  /\ dry.placed <=> Placed(job) # {}
            /\ \A parts \in Placed(job) :
                  dry.would = parts /\ (RulesShown(job) => dry.pin = PinOf(job, parts))

(* A bucket's partitions are never none, are able to hold its shape when    *)
(* any partition is, and have room for it when any partition has.  On a     *)
(* busy cluster, where phi is within the tolerance everywhere, the bucket   *)
(* admits every partition with room: no job is kept from one.               *)
RowsAdmit ==
    table # None => \A b \in Buckets :
        LET job   == bucket_shape(b)
            row   == table.rows[b]
            roomy == {p \in Partitions : has_room(job, {p}, table.free)}
        IN  /\ row # {}
            /\ feasible(job) # {} => row \subseteq feasible(job)
            /\ roomy # {} => row \subseteq roomy
            /\ (\A n \in Nodes : phi_node(table.free[n]) <= Tolerance * job.cpus) =>
                  roomy \subseteq row

(* A pin never goes against the tiers: no node where Slurm could start the  *)
(* job now is in a higher-ranked partition of the job's, if the plugin's    *)
(* copy shows what is free there for it.  (sjp counts reservations by       *)
(* memory too, Slurm by CPUs only.)                                         *)
FreeOn(n) == Minus(Total[n], [cpus |-> CpusOn(n, running), mem |-> MemOn(n, running)])
PinKeepsTier ==
    table # None => \A job \in JobTypes : \A parts \in Placed(job) :
        \A n \in PinOf(job, parts), o \in Nodes :
            CanStart(o, job, job.limit) /\ Holds(RoomFor(job)[o], FreeOn(o)) =>
                \A p \in parts \cap PartsOf[o] :
                    \E q \in parts \cap PartsOf[n] : Tier[q] >= Tier[p]
=============================================================================
