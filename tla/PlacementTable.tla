--------------------------- MODULE PlacementTable ---------------------------
(***************************************************************************)
(* The path of a node's free space from Slurm to a job: sjpd's poll_nodes  *)
(* thread reads the nodes, its score thread turns the snapshot into the    *)
(* policy table on disk, and the job_submit plugin in slurmctld reads that *)
(* file at every submission and pins jobs to nodes, counting each pin      *)
(* against its own copy of the table.                                      *)
(*                                                                         *)
(* Time is a step, Tick; clocks are ages.  "age" is what the program can   *)
(* compute from its own stamps, "lag" what it cannot: how old the node     *)
(* state already was when the stamp was put on it.                         *)
(*                                                                         *)
(* Which partitions suit a job, and which of several good nodes wins, are  *)
(* policy.py's decisions and appear here as the constants Reach and Rank   *)
(* and as a free choice of node.                                           *)
(***************************************************************************)
EXTENDS Integers, FiniteSets

CONSTANTS
    Nodes,          \* the cluster's nodes
    Capacity,       \* [Nodes -> Nat]: the size of a node
    MaxLoad,        \* most that jobs and active reservations claim of a node
    Sizes,          \* the job sizes that are submitted
    Reach,          \* [Sizes -> SUBSET Nodes]: nodes of the partitions a size may use
    Rank,           \* [Nodes -> Nat]: the PriorityTier of a node's best partition
    PolicyMaxAge,   \* cadence.policy_max_age
    PinMaxAge,      \* pin.max_age
    NodeInterval,   \* cadence.node_poll_interval
    ScoreInterval,  \* cadence.score_interval
    PollMax,        \* longest poll of the nodes (its commands have timeouts)
    ScoreMax,       \* longest time from the start of a score to its write
    Modes,          \* general.mode of the runs of sjpd to consider
    Faults,         \* kinds of fault that may happen
    FaultBudget,    \* bound: how many faults happen in a behaviour
    LoadChanges,    \* bound: how many changes of the nodes happen
    None

AllFaults == {"poll", "write", "kill", "disable", "ctld"}

ASSUME ConstantsAssumption ==
    /\ Capacity \in [Nodes -> Nat] /\ Rank \in [Nodes -> Nat]
    /\ Sizes \subseteq Nat \ {0} /\ Reach \in [Sizes -> SUBSET Nodes]
    /\ MaxLoad \in Nat /\ FaultBudget \in Nat /\ LoadChanges \in Nat
    /\ PolicyMaxAge \in Nat \ {0} /\ PinMaxAge \in Nat \ {0}
    /\ NodeInterval \in Nat \ {0} /\ ScoreInterval \in Nat \ {0}
    /\ PollMax \in Nat /\ ScoreMax \in Nat
    /\ Modes \subseteq {"observe", "advise", "enforce"}
    /\ Faults \subseteq AllFaults
    /\ IsFiniteSet(Nodes)

(* What is published of the nodes: the free space of each that is up; one   *)
(* that is down is left out, which Down stands for.                         *)
Down == -1
FreeMaps  == [Nodes -> Nat \cup {Down}]
Snapshots == [free : FreeMaps, age : Nat, lag : Nat]
Drafts    == [free : FreeMaps, lag : Nat]
Tables    == [free : FreeMaps, age : Nat, lag : Nat, pinning : BOOLEAN]

ASSUME NoneAssumption ==
    None \notin FreeMaps \cup Snapshots \cup Drafts \cup Tables

VARIABLES
    load, down,         \* Slurm: what is claimed of each node; nodes not up
    up, mode,           \* sjpd: whether it runs, and in which mode
    poll, sincePoll,    \* poll_nodes: what it has read (or None); age of its tick
    nodes,              \* Shared.nodes and nodes_at
    draft, sinceScore,  \* score: the rendered table not yet written; age of its tick
    lastFree,           \* last_pin_sig: the free space last handed to a write
    sinceWrite,         \* now - last_write
    table,              \* the policy table on disk
    loaded, room,       \* the plugin's cache: holds this table? its nodes, decremented
    charged,            \* history: what has been pinned to each node from this table
    sinceEnforce,       \* history: how long ago sjpd last ran in enforce
    disabled,           \* the disable file exists
    faults, changes     \* how many more faults and node changes may happen

slurm  == <<load, down, changes>>
daemon == <<up, mode, poll, sincePoll, nodes, draft, sinceScore, lastFree, sinceWrite>>
plugin == <<loaded, room, charged>>
world  == <<disabled, faults>>
vars   == <<slurm, daemon, table, plugin, world, sinceEnforce>>

-----------------------------------------------------------------------------
(* Ages stop growing one past the largest age anything compares them with. *)
AgeCap == PolicyMaxAge + PinMaxAge
Older(age) == IF age > AgeCap THEN age ELSE age + 1

(* Daemon.node_free over the poll's nodes: what is left of each node that   *)
(* is up; jobs and reservations may claim more than there is.               *)
NodeFree_signed ==
    [n \in Nodes |-> IF n \in down THEN Down ELSE Capacity[n] - load[n]]
NodeFree ==
    [n \in Nodes |-> IF n \in down THEN Down
                    ELSE IF load[n] > Capacity[n] THEN 0 ELSE Capacity[n] - load[n]]

(* score_once's "refresh": rewrite often enough that the plugin never sees  *)
(* the table or its free space as stale.                                    *)
RefreshDue_policyOnly(age) == 3 * age > PolicyMaxAge
RefreshDue_never(age) == FALSE
RefreshDue(age) == 3 * age > PolicyMaxAge \/ 2 * age > PinMaxAge

(* score(): a snapshot is scored while it is younger than policy_max_age.   *)
Scorable_anyAge(snap) == snap # None
Scorable(snap) == snap # None /\ snap.age < PolicyMaxAge

(* ... and score_once goes on past "no usable nodes".                       *)
ScoreUsable == Scorable(nodes) /\ \E n \in Nodes : nodes.free[n] # Down

(* The plugin's two age checks: the table's own max_age in packed_choice,   *)
(* and pin.max_age in pin_eligible, which has_room makes too.               *)
NotStale(t) == t.age <= PolicyMaxAge
NodeDataRecent(t) == t.age <= PinMaxAge
Fresh(t) == NotStale(t) /\ NodeDataRecent(t)

(* A write is carried out only in these modes and without the disable file. *)
Writing == mode \in {"advise", "enforce"} /\ ~disabled

Init ==
    /\ load = [n \in Nodes |-> 0] /\ down = {} /\ changes = LoadChanges
    /\ up = FALSE /\ mode \in Modes
    /\ poll = None /\ sincePoll = 0 /\ nodes = None
    /\ draft = None /\ sinceScore = 0 /\ lastFree = None /\ sinceWrite = AgeCap
    /\ table = None
    /\ loaded = FALSE /\ room = None /\ charged = [n \in Nodes |-> 0]
    /\ disabled = FALSE /\ faults = FaultBudget /\ sinceEnforce = AgeCap

-----------------------------------------------------------------------------
(* Slurm: jobs start and end, reservations begin, nodes go down and return. *)
NodesChange ==
    /\ changes > 0 /\ changes' = changes - 1
    /\ \/ \E n \in Nodes, used \in 0 .. MaxLoad :
              /\ used # load[n]
              /\ load' = [load EXCEPT ![n] = used]
              /\ UNCHANGED down
       \/ \E n \in Nodes :
              /\ down' = IF n \in down THEN down \ {n} ELSE down \cup {n}
              /\ UNCHANGED load
    /\ UNCHANGED <<daemon, table, plugin, world, sinceEnforce>>

Fault(kind) == kind \in Faults /\ faults > 0 /\ faults' = faults - 1

-----------------------------------------------------------------------------
(* sjpd starts with nothing in memory; last_write = 0 makes a refresh due.  *)
Start ==
    /\ ~up /\ up' = TRUE
    /\ mode' \in Modes
    /\ sinceEnforce' = IF mode' = "enforce" THEN 0 ELSE sinceEnforce
    /\ sincePoll' = NodeInterval /\ sinceScore' = ScoreInterval
    /\ UNCHANGED <<poll, nodes, draft, lastFree, sinceWrite, slurm, table, plugin, world>>

(* It stops or dies at any point; under systemd its RuntimeDirectory, with  *)
(* the table, goes with it.                                                 *)
Kill ==
    /\ up /\ Fault("kill")
    /\ up' = FALSE
    /\ poll' = None /\ nodes' = None /\ draft' = None /\ lastFree' = None
    /\ sinceWrite' = AgeCap /\ sincePoll' = 0 /\ sinceScore' = 0
    /\ \/ UNCHANGED <<table, plugin>>
       \/ /\ table' = None /\ loaded' = FALSE /\ room' = None
          /\ charged' = [n \in Nodes |-> 0]
    /\ UNCHANGED <<mode, slurm, disabled, sinceEnforce>>

-----------------------------------------------------------------------------
(* poll_nodes: read the nodes first; the other commands, and a slow answer, *)
(* come between that and the moment nodes_at is stamped.                    *)
PollRead ==
    /\ up /\ poll = None /\ sincePoll >= NodeInterval
    /\ poll' = NodeFree /\ sincePoll' = 0
    /\ UNCHANGED <<up, mode, nodes, draft, sinceScore, lastFree, sinceWrite,
                   slurm, table, plugin, world, sinceEnforce>>

PollPublish ==
    /\ up /\ poll # None
    /\ nodes' = [free |-> poll, age |-> 0, lag |-> sincePoll]
    /\ poll' = None
    /\ UNCHANGED <<up, mode, sincePoll, draft, sinceScore, lastFree, sinceWrite,
                   slurm, table, plugin, world, sinceEnforce>>

(* A command fails or times out: the poll is dropped, the old snapshot stays. *)
PollFail ==
    /\ up /\ poll # None /\ Fault("poll")
    /\ poll' = None
    /\ UNCHANGED <<up, mode, sincePoll, nodes, draft, sinceScore, lastFree, sinceWrite,
                   slurm, table, plugin, disabled, sinceEnforce>>

-----------------------------------------------------------------------------
(* score / score_once up to the write.  A table is rendered when the free   *)
(* space, or anything else in it (decisions, tiers, users' room), changed   *)
(* or a refresh is due.  The signature and last_write are set before the    *)
(* write is even tried.                                                     *)
Score ==
    /\ up /\ draft = None /\ sinceScore >= ScoreInterval
    /\ sinceScore' = 0
    /\ \/ /\ ScoreUsable
          /\ lastFree' = nodes.free /\ sinceWrite' = 0
          /\ draft' = [free |-> nodes.free, lag |-> nodes.age + nodes.lag]
       \/ /\ ~ (ScoreUsable /\ (nodes.free # lastFree \/ RefreshDue(sinceWrite)))
          /\ UNCHANGED <<draft, lastFree, sinceWrite>>
    /\ UNCHANGED <<up, mode, poll, sincePoll, nodes, slurm, table, plugin, world,
                   sinceEnforce>>

(* The rendered table: generated_at is the start of the score; pins are on  *)
(* in enforce only (pin_active).                                            *)
Rendered_pinsAnyMode ==
    [free |-> draft.free, age |-> sinceScore, lag |-> draft.lag, pinning |-> TRUE]
Rendered ==
    [free |-> draft.free, age |-> sinceScore, lag |-> draft.lag,
     pinning |-> mode = "enforce"]

(* _write_atomic: the rename puts the whole table in place at once, and its *)
(* text is new, so the plugin's cached table no longer matches it.          *)
Write ==
    /\ up /\ draft # None /\ Writing
    /\ table' = Rendered
    /\ loaded' = FALSE /\ room' = None /\ charged' = [n \in Nodes |-> 0]
    /\ draft' = None
    /\ UNCHANGED <<up, mode, poll, sincePoll, nodes, sinceScore, lastFree, sinceWrite,
                   slurm, world, sinceEnforce>>

(* The write is blocked (mode, disable file) or fails; intend logs it and   *)
(* nobody tries again.  In observe the table goes elsewhere.                *)
WriteLost ==
    /\ up /\ draft # None
    /\ \/ ~Writing /\ UNCHANGED faults
       \/ Fault("write")
    /\ draft' = None
    /\ UNCHANGED <<up, mode, poll, sincePoll, nodes, sinceScore, lastFree, sinceWrite,
                   slurm, table, plugin, disabled, sinceEnforce>>

-----------------------------------------------------------------------------
(* The plugin: slurmctld runs one job submission at a time.                 *)

(* load_table: the cached table while the file's text is the cached one.    *)
View == IF loaded THEN room ELSE table.free

Candidates(size) == {n \in Reach[size] : View[n] >= size}

(* pick_node looks only at the highest rank that has room.                  *)
TopRanked(ns) == {n \in ns : \A m \in ns : Rank[m] <= Rank[n]}

TableReadable == ~disabled /\ table # None

(* place() without a pin: "stale", "no room", or placed in partitions only. *)
(* All of them have loaded the table, before any age is looked at.          *)
SubmitUnpinned ==
    /\ TableReadable
    /\ loaded' = TRUE /\ room' = View
    /\ UNCHANGED <<charged, slurm, daemon, table, world, sinceEnforce>>

(* place() with a pin: fresh node data, pinning on, and at least two nodes  *)
(* to choose from; the pin is counted against the node.                     *)
Counted_not(ns, n, size) == ns
Counted(ns, n, size) == [ns EXCEPT ![n] = @ - size]

SubmitPinned(size, n) ==
    /\ TableReadable /\ Fresh(table) /\ table.pinning
    /\ n \in TopRanked(Candidates(size))
    /\ Cardinality(TopRanked(Candidates(size))) > 1
    /\ loaded' = TRUE
    /\ room' = Counted(View, n, size)
    /\ charged' = [charged EXCEPT ![n] = @ + size]
    /\ UNCHANGED <<slurm, daemon, table, world, sinceEnforce>>

(* slurmctld restarts, or reloads the script: the cache starts empty.       *)
CtldRestart ==
    /\ Fault("ctld")
    /\ loaded' = FALSE /\ room' = None
    /\ UNCHANGED <<charged, slurm, daemon, table, disabled, sinceEnforce>>

-----------------------------------------------------------------------------
(* An admin touches or removes the disable file.                            *)
Disable ==
    /\ ~disabled /\ Fault("disable") /\ disabled' = TRUE
    /\ UNCHANGED <<slurm, daemon, table, plugin, sinceEnforce>>

Enable ==
    /\ disabled /\ disabled' = FALSE
    /\ UNCHANGED <<slurm, daemon, table, plugin, faults, sinceEnforce>>

(* Time passes, but not past the moment a running thread is due.            *)
Punctual ==
    /\ sincePoll  < IF poll = None THEN NodeInterval ELSE PollMax
    /\ sinceScore < IF draft = None THEN ScoreInterval ELSE ScoreMax

Tick ==
    /\ \/ /\ up /\ Punctual
          /\ sincePoll' = sincePoll + 1 /\ sinceScore' = sinceScore + 1
          /\ sinceWrite' = Older(sinceWrite)
          /\ sinceEnforce' = IF mode = "enforce" THEN 0 ELSE Older(sinceEnforce)
       \/ /\ ~up
          /\ sinceEnforce' = Older(sinceEnforce)
          /\ UNCHANGED <<sincePoll, sinceScore, sinceWrite>>
    /\ nodes' = IF nodes = None THEN None ELSE [nodes EXCEPT !.age = Older(@)]
    /\ table' = IF table = None THEN None ELSE [table EXCEPT !.age = Older(@)]
    /\ UNCHANGED <<up, mode, poll, draft, lastFree, slurm, plugin, world>>

SjpdNext == Start \/ PollRead \/ PollPublish \/ Score \/ Write \/ WriteLost
PluginNext == SubmitUnpinned \/ \E size \in Sizes, n \in Nodes : SubmitPinned(size, n)
FaultNext == Kill \/ PollFail \/ CtldRestart \/ Disable \/ Enable

Next == NodesChange \/ SjpdNext \/ PluginNext \/ FaultNext \/ Tick

Spec == Init /\ [][Next]_vars

(* systemd restarts sjpd, its threads keep running, and time passes.  No    *)
(* fairness for users, for the admin or for faults.                         *)
Fairness ==
    /\ WF_vars(Start) /\ WF_vars(PollRead) /\ WF_vars(PollPublish)
    /\ WF_vars(Score) /\ WF_vars(Write) /\ WF_vars(Tick)

FairSpec == Spec /\ Fairness

-----------------------------------------------------------------------------
(* Types, and the ranges the ages stay in.                                  *)
TypeOK ==
    /\ load \in [Nodes -> 0 .. MaxLoad] /\ down \subseteq Nodes
    /\ up \in BOOLEAN /\ mode \in Modes
    /\ poll \in FreeMaps \cup {None} /\ sincePoll \in Nat
    /\ nodes \in Snapshots \cup {None}
    /\ draft \in Drafts \cup {None} /\ sinceScore \in Nat
    /\ lastFree \in FreeMaps \cup {None} /\ sinceWrite \in 0 .. AgeCap + 1
    /\ table \in Tables \cup {None}
    /\ loaded \in BOOLEAN /\ room \in IF loaded THEN FreeMaps ELSE {None}
    /\ charged \in [Nodes -> Nat]
    /\ disabled \in BOOLEAN /\ sinceEnforce \in 0 .. AgeCap + 1
    /\ faults \in 0 .. FaultBudget /\ changes \in 0 .. LoadChanges

(* The stronger facts behind the properties below, which a step preserves:  *)
(* lags are bounded by what lets a snapshot and a poll through;             *)
LagsBounded ==
    /\ poll # None => up /\ sincePoll <= PollMax
    /\ nodes # None => nodes.lag <= PollMax
    /\ draft # None => draft.lag < PolicyMaxAge + PollMax
    /\ table # None => table.lag < PolicyMaxAge + PollMax

(* a table with pins on is no younger than the last moment of enforce mode; *)
EnforceIsRecent ==
    /\ up /\ mode = "enforce" => sinceEnforce = 0
    /\ table # None /\ table.pinning => sinceEnforce <= table.age

(* and what the cache has left, plus what was pinned, is what was published. *)
CacheAddsUp ==
    /\ ~loaded => charged = [n \in Nodes |-> 0]
    /\ loaded =>
          /\ table # None
          /\ \A n \in Nodes : /\ room[n] + charged[n] = table.free[n]
                              /\ charged[n] > 0 => room[n] >= 0

Pinning == \E n \in Nodes : charged'[n] > charged[n]

(* The burst of submissions the decrement in sjp.lua is for: from one table *)
(* the plugin never pins to a node more than the table says is free there.  *)
PinsFitTable ==
    \A n \in Nodes : charged[n] > 0 =>
        table # None /\ charged[n] <= table.free[n]

(* How old the node state behind a pin can really be: the plugin bounds the *)
(* table's age, score() the snapshot's, the command timeouts the poll's.    *)
PinStateAgeBounded ==
    [][Pinning => table.age + table.lag < PinMaxAge + PolicyMaxAge + PollMax]_vars

(* Pins need sjpd in enforce to release them (pin_active): none is made     *)
(* once sjpd has not run in enforce for longer than pin.max_age.            *)
PinsHaveAReleaser ==
    [][Pinning => sinceEnforce <= PinMaxAge]_vars

(* score_once's refresh: the plugin never sees the table as stale while     *)
(* nothing has gone wrong: no fault so far, and too few changes for all     *)
(* nodes to have been down at once.                                         *)
Undisturbed == faults = FaultBudget /\ LoadChanges - changes < Cardinality(Nodes)

(* Why, as a step preserves it: the threads are punctual, a snapshot is of   *)
(* the last poll but one at the oldest and shows a usable node, and a score *)
(* either renders or finds a table that no refresh is due for.              *)
SomeUsable(free) == \E n \in Nodes : free[n] # Down
BeforeScore(age) ==
    age <= ScoreInterval \/ age <= ScoreMax \/ ~RefreshDue(age - ScoreInterval)
ThreadsPunctual ==
    /\ poll # None \/ nodes # None \/ draft # None \/ table # None => up
    /\ sincePoll <= NodeInterval \/ sincePoll <= PollMax
    /\ sinceScore <= ScoreInterval \/ sinceScore <= ScoreMax
    /\ draft # None => sinceScore <= ScoreMax /\ sinceWrite = sinceScore
SnapshotRecent ==
    /\ poll # None => SomeUsable(poll)
    /\ draft # None => nodes # None
    /\ nodes # None =>
          /\ SomeUsable(nodes.free)
          /\ \/ nodes.age <= sincePoll
             \/ /\ poll # None
                /\ nodes.age <= sincePoll + NodeInterval \/ nodes.age <= sincePoll + PollMax
TableRefreshed ==
    table # None =>
       /\ nodes # None /\ Writing
       /\ draft = None =>
             /\ table.age = sinceWrite
             /\ \/ sinceWrite <= sinceScore
                \/ /\ sinceScore <= sinceWrite /\ sinceScore <= ScoreInterval
                   /\ ~RefreshDue(sinceWrite - sinceScore)
       /\ draft # None => sinceScore <= table.age /\ BeforeScore(table.age - sinceScore)
DownCounted == IsFiniteSet(down) /\ Cardinality(down) <= LoadChanges - changes
Quiet == ~disabled /\ ThreadsPunctual /\ SnapshotRecent /\ TableRefreshed
KeptFresh == DownCounted /\ (Undisturbed => Quiet)

TableNeverStale ==
    Undisturbed /\ up /\ Writing /\ table # None => Fresh(table)

(* A blocked or failed write is never retried as such; the refresh makes it *)
(* good.  Once sjpd stays up, enabled and in a writing mode, with a usable  *)
(* node, the plugin ends up with a fresh table for good.                    *)
PluginRecovers ==
    <>[](up /\ Writing /\ down # Nodes) => <>[](table # None /\ Fresh(table))
=============================================================================
