----------------------------- MODULE FlexMoves -----------------------------
(***************************************************************************)
(* Elastic limits in flex mode: the act thread moves jobs that only the CPU *)
(* cap of their QOS holds to the flex QOS, as many as fit in the free space *)
(* (flex), and puts back those that do not start there (unflex).  The jobs, *)
(* slurmctld, the act thread with its memory, the two polls it reads from,  *)
(* and the users.                                                           *)
(*                                                                          *)
(* A job's size and a node's space are one number.  A step of time is       *)
(* longer than one pass of the act thread.                                  *)
(***************************************************************************)
EXTENDS Integers, FiniteSets, Functions

CONSTANTS
    Jobs, Nodes,
    Size,           \* [Jobs -> Nat]
    Priority,       \* [Jobs -> Nat], all different
    Reach,          \* [Jobs -> SUBSET Nodes]: the nodes of the job's partitions
    MayUseFlex,     \* the jobs whose user may use the flex QOS
    Total,          \* [Nodes -> Nat]
    Later,          \* [Nodes -> Nat]: what a reservation still to start takes there
    Long,           \* the jobs that would still run then
    MinIdle,        \* limits.min_idle_share, of the nodes there are, as space
    RevertAfter,    \* limits.flex_revert_after
    Cooldown,       \* limits.cooldown_seconds
    Modes,          \* modes sjpd may be started in
    Faults,         \* kinds of fault that may happen
    FaultBudget,    \* bound: how many faults happen in a behaviour
    None

AllFaults ==
    {"comment",     \* scontrol show job fails
     "users",       \* sacctmgr show assoc fails
     "flex", "own", \* the command that sets this QOS fails
     "kill",        \* sjpd stops or dies
     "disable",     \* the disable file appears
     "hand",        \* somebody else changes a job's QOS
     "cancel",      \* a pending job is cancelled
     "requeue",     \* a job is requeued after it started
     "hold",        \* the cap stops or starts to hold a job
     "load",        \* other jobs start or end on a node
     "node"}        \* a node becomes unusable, or usable again

ASSUME ConstantsAssumption ==
    /\ IsFiniteSet(Jobs) /\ IsFiniteSet(Nodes)
    /\ Size \in [Jobs -> Nat \ {0}] /\ Priority \in [Jobs -> Nat]
    /\ \A j, k \in Jobs : Priority[j] = Priority[k] => j = k
    /\ Reach \in [Jobs -> SUBSET Nodes] /\ MayUseFlex \subseteq Jobs
    /\ Total \in [Nodes -> Nat] /\ Later \in [Nodes -> Nat] /\ Long \subseteq Jobs
    /\ MinIdle \in Nat
    /\ RevertAfter \in Nat \ {0} /\ Cooldown \in Nat \ {0}
    /\ Modes \subseteq {"observe", "advise", "enforce"} /\ Modes # {}
    /\ Faults \subseteq AllFaults /\ FaultBudget \in Nat

QOSes  == {"own", "flex"}
Marks  == [from : QOSes, to : QOSes]
Places == Nodes \cup {"pending", "gone"}
Claims == [node : Nodes, age : 0 .. RevertAfter]
Rows   == {"none", "own", "held", "flex"}
Commands == [job : Jobs, qos : QOSes, mark : Marks \cup {None}, node : Nodes \cup {None}]

ASSUME NoneAssumption ==
    /\ None \notin Marks \cup Claims \cup Nodes \cup Commands \cup QOSes
    /\ None \notin [free : UNION {[S -> Int] : S \in SUBSET Nodes}, fresh : BOOLEAN]
    /\ Nodes \cap {"pending", "gone", "started", "lost"} = {}

VARIABLES
    job,        \* Slurm: where a job is, its QOS, whether the cap holds it, its mark
    load,       \* what other jobs use of a node
    usable,     \* the nodes that are up
    up, mode,   \* sjpd runs, and in which mode
    pend,       \* Shared.pending: the row of every job in the last queue poll
    nodes,      \* Shared.nodes, of the usable nodes; None before the first poll
    flexed,     \* Daemon.flexed
    seen,       \* Daemon.flex_seen as ages; Cooldown when not in there
    act,        \* how far the act thread is
    disabled,   \* the disable file exists
    faults,     \* how many more faults may happen
    moved,      \* history: the node a job that sjpd moved was counted against,
                \* "started" once it has started, "lost" when sjpd failed to
                \* put it back and did not count it any more
    marked,     \* history: the jobs a move of sjpd's has ever reached
    since       \* history: how long ago this run of sjpd last changed a QOS

cluster == <<job, load, usable>>
memory  == <<pend, nodes, flexed, seen>>
history == <<moved, marked, since>>
vars    == <<cluster, up, mode, memory, act, disabled, faults, history>>

Fault(kind) == kind \in Faults /\ faults > 0 /\ faults' = faults - 1
Total_(sizes, js) == SumFunctionOnSet(sizes, js)

-----------------------------------------------------------------------------
(* Slurm and the users                                                      *)
Pending(j)   == job[j].at = "pending"
SlurmFree(n) == Total[n] - load[n] - Total_(Size, {j \in Jobs : job[j].at = n})

(* reserved_before: what reservations take before the job would end.        *)
Soon(j, n)    == IF j \in Long THEN Later[n] ELSE 0
SlurmFits(j, n) == n \in usable \cap Reach[j] /\ SlurmFree(n) - Soon(j, n) >= Size[j]

Outdated(data) == IF data = None THEN None ELSE [data EXCEPT !.fresh = FALSE]
Outdate == nodes' = Outdated(nodes) /\ act' = [act EXCEPT !.fresh = FALSE]

Idle == [stage |-> "idle", todo |-> {}, held |-> {}, live |-> {},
         free |-> <<>>, fresh |-> FALSE, cmd |-> None]

Init ==
    /\ job = [j \in Jobs |-> [at |-> "pending", qos |-> "own", held |-> TRUE, mark |-> None]]
    /\ load = [n \in Nodes |-> 0] /\ usable = Nodes
    /\ up = TRUE /\ mode \in Modes
    /\ pend = [j \in Jobs |-> "none"] /\ nodes = None
    /\ flexed = [j \in Jobs |-> None] /\ seen = [j \in Jobs |-> Cooldown]
    /\ act = Idle
    /\ disabled = FALSE /\ faults = FaultBudget
    /\ moved = [j \in Jobs |-> None] /\ marked = {}
    /\ since = [j \in Jobs |-> Cooldown]

Running(record, n) == [record EXCEPT !.at = n, !.held = FALSE]

(* A job starts where it fits, unless a cap of its own QOS holds it.        *)
StartJob(j) ==
    /\ Pending(j) /\ (job[j].qos = "own" => ~job[j].held)
    /\ \E n \in Nodes : SlurmFits(j, n) /\ job' = [job EXCEPT ![j] = Running(@, n)]
    /\ moved' = [moved EXCEPT ![j] = IF @ = None THEN None ELSE "started"]
    /\ Outdate
    /\ UNCHANGED <<load, usable, up, mode, pend, flexed, seen, disabled, faults, marked, since>>

EndJob(j) ==
    /\ \/ job[j].at \in Nodes /\ UNCHANGED faults
       \/ Pending(j) /\ Fault("cancel")
    /\ job' = [job EXCEPT ![j] = [at |-> "gone", qos |-> "own", held |-> FALSE, mark |-> None]]
    /\ moved' = [moved EXCEPT ![j] = None] /\ marked' = marked \ {j}
    /\ since' = [since EXCEPT ![j] = Cooldown]
    /\ UNCHANGED <<load, usable, up, mode, memory, act, disabled>>

RequeueJob(j) ==
    /\ job[j].at \in Nodes /\ Fault("requeue")
    /\ job' = [job EXCEPT ![j].at = "pending"]
    /\ UNCHANGED <<load, usable, up, mode, memory, act, disabled, history>>

HoldChanges(j) ==
    /\ Pending(j) /\ job[j].qos = "own" /\ Fault("hold") /\ job' = [job EXCEPT ![j].held = ~@]
    /\ UNCHANGED <<load, usable, up, mode, memory, act, disabled, history>>

(* The cap holds a job that comes to its own QOS, until Slurm finds it does *)
(* not; of a job in the flex QOS there is nothing to say.                   *)
Under(record, q) == [record EXCEPT !.qos = q, !.held = q = "own"]

HandSetsQOS(j) ==
    /\ Pending(j) /\ Fault("hand")
    /\ \E q \in QOSes \ {job[j].qos} : job' = [job EXCEPT ![j] = Under(@, q)]
    /\ moved' = [moved EXCEPT ![j] = None]
    /\ UNCHANGED <<load, usable, up, mode, memory, act, disabled, marked, since>>

LoadChanges(n) ==
    /\ Fault("load")
    /\ \E l \in 0 .. load[n] + SlurmFree(n) : l # load[n] /\ load' = [load EXCEPT ![n] = l]
    /\ Outdate
    /\ UNCHANGED <<job, usable, up, mode, pend, flexed, seen, disabled, history>>

NodeChanges(n) ==
    /\ Fault("node")
    /\ usable' = IF n \in usable THEN usable \ {n} ELSE usable \cup {n}
    /\ UNCHANGED <<job, load, up, mode, memory, act, disabled, history>>

-----------------------------------------------------------------------------
(* What act_once reads.  A poll that fails leaves the last one's result.    *)
Row(j) == IF ~Pending(j) THEN "none"
          ELSE IF job[j].qos = "flex" THEN "flex"
          ELSE IF job[j].held THEN "held" ELSE "own"

PollQueue ==
    /\ up /\ pend' = [j \in Jobs |-> Row(j)]
    /\ UNCHANGED <<cluster, up, mode, nodes, flexed, seen, act, disabled, faults, history>>

PollNodes ==
    /\ up /\ nodes' = [free |-> [n \in usable |-> SlurmFree(n)], fresh |-> TRUE]
    /\ UNCHANGED <<cluster, up, mode, pend, flexed, seen, act, disabled, faults, history>>

-----------------------------------------------------------------------------
(* act_once, unflex                                                         *)

(* Moved by this run, and not long ago.                                     *)
Waiting_orUnknown(j) == flexed[j] # None => flexed[j].age < RevertAfter
Waiting(j) == flexed[j] # None /\ flexed[j].age < RevertAfter

(* Nodes and queue are copied under the lock; without a usable node there   *)
(* is nothing to do.                                                        *)
ActBegin ==
    /\ up /\ act = Idle
    /\ nodes # None /\ DOMAIN nodes.free # {}
    /\ act' = [stage |-> "unflex",
               todo  |-> {j \in Jobs : pend[j] = "flex" /\ ~Waiting(j)},
               held  |-> {j \in Jobs : pend[j] = "held"},
               live  |-> {j \in Jobs : pend[j] # "none"},
               free  |-> nodes.free, fresh |-> nodes.fresh, cmd |-> None]
    /\ UNCHANGED <<cluster, up, mode, memory, disabled, faults, history>>

Noted_not(j) == seen
Noted(j) == [seen EXCEPT ![j] = 0]

(* Only a job with sjp's mark is put back, to the QOS the mark names first. *)
Orig_anyJob(mark) == IF mark = None THEN "own" ELSE mark.from
Orig(mark) == IF mark = None THEN None ELSE mark.from

PutBack(j) ==
    /\ act.stage = "unflex" /\ act.cmd = None /\ j \in act.todo
    /\ flexed' = [flexed EXCEPT ![j] = None]
    /\ LET orig == Orig(job[j].mark)
       IN  IF orig # None
           THEN /\ seen' = Noted(j)
                /\ act' = [act EXCEPT !.todo = @ \ {j},
                                      !.cmd = [job |-> j, qos |-> orig, mark |-> None,
                                               node |-> None]]
           ELSE UNCHANGED seen /\ act' = [act EXCEPT !.todo = @ \ {j}]
    /\ UNCHANGED <<cluster, up, mode, pend, nodes, disabled, faults, history>>

(* An unreadable comment: not this time.                                    *)
PutBackUnread(j) ==
    /\ act.stage = "unflex" /\ act.cmd = None /\ j \in act.todo
    /\ Fault("comment") \/ (job[j].at = "gone" /\ UNCHANGED faults)
    /\ act' = [act EXCEPT !.todo = @ \ {j}]
    /\ moved' = [moved EXCEPT ![j] = IF @ # None /\ flexed[j] = None THEN "lost" ELSE @]
    /\ UNCHANGED <<cluster, up, mode, memory, disabled, marked, since>>

-----------------------------------------------------------------------------
(* flex                                                                     *)

(* Jobs moved earlier that have not started yet still claim their space.    *)
Unclaimed_all(free, claims) == free
Unclaimed(free, claims) ==
    [n \in DOMAIN free |->
        free[n] - Total_(Size, {j \in Jobs : claims[j] # None /\ claims[j].node = n})]

(* Jobs no longer pending are forgotten.                                    *)
StillPending_orGone(claims, live) == claims
StillPending(claims, live) == [j \in Jobs |-> IF j \in live THEN claims[j] ELSE None]

(* The idle share is the act thread's own view.                             *)
IdleEnough(free) == Total_(free, DOMAIN free) >= MinIdle

FlexBegin ==
    /\ act.stage = "unflex" /\ act.cmd = None /\ act.todo = {}
    /\ flexed' = StillPending(flexed, act.live)
    /\ act' = IF IdleEnough(act.free)
              THEN [act EXCEPT !.stage = "flex",
                               !.todo = {j \in act.held : seen[j] >= Cooldown},
                               !.free = Unclaimed(act.free, flexed'),
                               !.held = {}, !.live = {}]
              ELSE Idle
    /\ UNCHANGED <<cluster, up, mode, pend, nodes, seen, disabled, faults, history>>

Fits(j) == {n \in DOMAIN act.free \cap Reach[j] : act.free[n] - Soon(j, n) >= Size[j]}
Tightest(ns) == {n \in ns : \A o \in ns : act.free[n] <= act.free[o]}
flex_allowed(j) == j \in MayUseFlex

(* The jobs that will be moved, as things are, first the one of highest     *)
(* priority.                                                                *)
Ready == {j \in act.todo : Fits(j) # {} /\ flex_allowed(j)}

(* The space is taken and the job noted before its comment is read.         *)
Taken(j, n) ==
    /\ act.stage = "flex" /\ act.cmd = None
    /\ j \in Ready /\ \A k \in Ready : Priority[j] >= Priority[k]
    /\ n \in Tightest(Fits(j))
    /\ seen' = Noted(j)

Move(j, n) ==
    /\ Taken(j, n)
    /\ act' = [act EXCEPT !.todo = @ \ {j}, !.free[n] = @ - Size[j],
                          !.cmd = [job |-> j, qos |-> "flex", node |-> n,
                                   mark |-> [from |-> "own", to |-> "flex"]]]
    /\ UNCHANGED <<cluster, up, mode, pend, nodes, flexed, disabled, faults, history>>

MoveUnread(j, n) ==
    /\ Taken(j, n)
    /\ Fault("comment") \/ (job[j].at = "gone" /\ UNCHANGED faults)
    /\ act' = [act EXCEPT !.todo = @ \ {j}, !.free[n] = @ - Size[j]]
    /\ UNCHANGED <<cluster, up, mode, pend, nodes, flexed, disabled, history>>

(* flex_allowed cannot read the associations.                               *)
UsersUnread(j) ==
    /\ act.stage = "flex" /\ act.cmd = None /\ j \in act.todo /\ Fits(j) # {}
    /\ Fault("users")
    /\ act' = [act EXCEPT !.todo = @ \ {j}]
    /\ UNCHANGED <<cluster, up, mode, memory, disabled, history>>

ActEnd ==
    /\ act.stage = "flex" /\ act.cmd = None /\ Ready = {}
    /\ act' = Idle
    /\ UNCHANGED <<cluster, up, mode, memory, disabled, faults, history>>

-----------------------------------------------------------------------------
(* The command of either.  Putting back is allowed in enforce mode even     *)
(* with the disable file present.                                           *)
Blocked(cmd) == mode # "enforce" \/ (cmd.qos = "flex" /\ disabled)

(* In enforce mode a move is noted whatever became of it.                   *)
Counted_putBackToo(cmd) == mode = "enforce"
Counted(cmd) == cmd.qos = "flex" /\ mode = "enforce"

CommandDone ==
    /\ act' = [act EXCEPT !.cmd = None]
    /\ flexed' = IF Counted(act.cmd)
                 THEN [flexed EXCEPT ![act.cmd.job] = [node |-> act.cmd.node, age |-> 0]]
                 ELSE flexed

(* The job, once a command has landed: one back leaves the mark as it is.   *)
Landed(record, cmd) ==
    LET r == IF record.qos = cmd.qos THEN record ELSE Under(record, cmd.qos)
    IN  IF cmd.mark = None THEN r ELSE [r EXCEPT !.mark = cmd.mark]

(* A job that is moved again counts where the last move counted it.         *)
Recounted(node) == IF node \in Nodes /\ act.cmd.qos = "flex" THEN act.cmd.node ELSE node

(* A command that times out and lands all the same leaves the same.         *)
CommandLands ==
    /\ act.cmd # None /\ ~Blocked(act.cmd) /\ Pending(act.cmd.job)
    /\ LET j == act.cmd.job  changed == job[j].qos # act.cmd.qos
       IN  /\ job' = [job EXCEPT ![j] = Landed(@, act.cmd)]
           /\ moved' = [moved EXCEPT ![j] =
                          IF ~changed THEN Recounted(@)
                          ELSE IF act.cmd.qos = "flex" /\ pend[j] = "none" THEN "started"
                          ELSE act.cmd.node]
           /\ marked' = IF act.cmd.mark = None THEN marked ELSE marked \cup {j}
           /\ since' = IF changed THEN [since EXCEPT ![j] = 0] ELSE since
    /\ CommandDone
    /\ UNCHANGED <<load, usable, up, mode, pend, nodes, seen, disabled, faults>>

(* Blocked, refused because the job is not pending, or failed.              *)
CommandMissed ==
    /\ act.cmd # None
    /\ \/ Blocked(act.cmd) /\ UNCHANGED faults
       \/ ~Blocked(act.cmd) /\ ~Pending(act.cmd.job) /\ UNCHANGED faults
       \/ ~Blocked(act.cmd) /\ Fault(act.cmd.qos)
    /\ CommandDone
    /\ moved' = [moved EXCEPT ![act.cmd.job] =
                    IF act.cmd.qos = "own" /\ @ # None THEN "lost" ELSE Recounted(@)]
    /\ UNCHANGED <<cluster, up, mode, pend, nodes, seen, disabled, marked, since>>

-----------------------------------------------------------------------------
Start ==
    /\ ~up /\ up' = TRUE /\ mode' \in Modes
    /\ UNCHANGED <<cluster, memory, act, disabled, faults, history>>

(* Everything sjpd knew is lost; only the marks in Slurm are left.          *)
Kill ==
    /\ up /\ Fault("kill") /\ up' = FALSE
    /\ pend' = [j \in Jobs |-> "none"] /\ nodes' = None
    /\ flexed' = [j \in Jobs |-> None] /\ seen' = [j \in Jobs |-> Cooldown]
    /\ act' = Idle /\ since' = [j \in Jobs |-> Cooldown]
    /\ UNCHANGED <<cluster, mode, disabled, moved, marked>>

Disable ==
    /\ ~disabled /\ Fault("disable") /\ disabled' = TRUE
    /\ UNCHANGED <<cluster, up, mode, memory, act, history>>

Enable ==
    /\ disabled /\ disabled' = FALSE
    /\ UNCHANGED <<cluster, up, mode, memory, act, faults, history>>

Older(age, cap) == IF age < cap THEN age + 1 ELSE age
Tick ==
    /\ act = Idle
    /\ flexed' = [j \in Jobs |->
                    IF flexed[j] = None THEN None
                    ELSE [flexed[j] EXCEPT !.age = Older(@, RevertAfter)]]
    /\ seen' = [j \in Jobs |-> Older(seen[j], Cooldown)]
    /\ since' = [j \in Jobs |-> Older(since[j], Cooldown)]
    /\ UNCHANGED <<cluster, up, mode, pend, nodes, act, disabled, faults, moved, marked>>

SlurmNext ==
    \/ \E j \in Jobs : StartJob(j) \/ EndJob(j) \/ RequeueJob(j) \/ HoldChanges(j)
                       \/ HandSetsQOS(j)
    \/ \E n \in Nodes : LoadChanges(n) \/ NodeChanges(n)
ActNext ==
    \/ ActBegin \/ FlexBegin \/ ActEnd \/ CommandLands \/ CommandMissed
    \/ \E j \in Jobs : PutBack(j) \/ PutBackUnread(j) \/ UsersUnread(j)
    \/ \E j \in Jobs, n \in Nodes : Move(j, n) \/ MoveUnread(j, n)

Next == SlurmNext \/ PollQueue \/ PollNodes \/ ActNext \/ Start \/ Kill
        \/ Disable \/ Enable \/ Tick

Spec == Init /\ [][Next]_vars

(* systemd restarts sjpd, its threads go on, and time passes.               *)
Fairness == /\ WF_vars(Start) /\ WF_vars(PollQueue) /\ WF_vars(PollNodes)
            /\ WF_vars(ActNext) /\ SF_vars(Tick)
FairSpec == Spec /\ Fairness

-----------------------------------------------------------------------------
TypeOK ==
    /\ job \in [Jobs -> [at : Places, qos : QOSes, held : BOOLEAN, mark : Marks \cup {None}]]
    /\ load \in [Nodes -> Nat] /\ usable \subseteq Nodes
    /\ up \in BOOLEAN /\ mode \in Modes /\ disabled \in BOOLEAN
    /\ pend \in [Jobs -> Rows]
    /\ flexed \in [Jobs -> Claims \cup {None}] /\ seen \in [Jobs -> 0 .. Cooldown]
    /\ act.stage \in {"idle", "unflex", "flex"} /\ act.cmd \in Commands \cup {None}
    /\ act.todo \subseteq Jobs
    /\ faults \in 0 .. FaultBudget
    /\ moved \in [Jobs -> Nodes \cup {None, "started", "lost"}]
    /\ marked \subseteq Jobs /\ since \in [Jobs -> 0 .. Cooldown]

(* A job sjpd moves now.                                                    *)
Moves(j) == moved[j] = None /\ moved'[j] # None

(* "Each is counted against a node's free space, so the moves never add up  *)
(* to more than the cluster can start": when a job is moved, it can start   *)
(* on the node it was counted against beside every job moved earlier that   *)
(* has not started, whatever pass or run of sjpd moved it, unless something *)
(* started since the nodes were read or sjpd failed to put a job back.      *)
MovesFit ==
    [][\A j \in Jobs : Moves(j) /\ moved'[j] \in Nodes /\ act.fresh =>
          LET n == moved'[j]
          IN  Total_(Size, {k \in Jobs : moved'[k] = n /\ Pending(k)}) <= SlurmFree(n)]_vars

(* A job is not sent back and forth: for the cooldown after sjpd changed    *)
(* its QOS, either way, the same run does not move it again.                *)
NoPingPong == [][\A j \in Jobs : Moves(j) => since[j] >= Cooldown]_vars

PutsBack(j) == act.cmd # None /\ act.cmd.job = j
               /\ job[j].qos = "flex" /\ job'[j].qos = "own" /\ act'.cmd = None

(* "put there by someone else: not sjp's to move": sjpd takes no job out of *)
(* the flex QOS that it never moved, whatever is restarted in between.      *)
StrangersLeftAlone == [][\A j \in Jobs : PutsBack(j) => j \in marked]_vars

(* The same, taken at its word: only jobs that sjpd put there this time.    *)
OthersLeftAlone == [][\A j \in Jobs : PutsBack(j) => moved[j] # None]_vars

(* flex_revert_after: a job that sjpd moved and that does not start goes    *)
(* back, whatever failed, with the disable file present, after a restart.   *)
GoesBack ==
    \A j \in Jobs : ~<>[](/\ up /\ mode = "enforce" /\ usable # {}
                          /\ moved[j] # None /\ Pending(j))

(* A job that only the cap holds and that has room, and no rival for it.    *)
HeldUp(j) ==
    /\ up /\ mode = "enforce" /\ ~disabled /\ j \in MayUseFlex
    /\ Row(j) = "held" /\ \A k \in Jobs \ {j} : Row(k) # "held"
    /\ Total_([n \in Nodes |-> SlurmFree(n)], usable) >= MinIdle
    /\ \E n \in usable \cap Reach[j] :
          SlurmFree(n) - Soon(j, n) - Total_(Size, {k \in Jobs : Row(k) = "flex"}) >= Size[j]

(* "as many as fit in the free space now": a job does not stay held by the  *)
(* cap next to free space it fits in, unless a move that was blocked or     *)
(* failed is still counted.                                                 *)
Miscounted == {j \in Jobs : flexed[j] # None /\ job[j].qos # "flex"}
MovedInTheEnd == \A j \in Jobs : ~<>[](HeldUp(j) /\ Miscounted = {})

(* ... without the exception.                                               *)
FreeSpaceIsUsed == \A j \in Jobs : ~<>[]HeldUp(j)
=============================================================================
