# slurmjobpacker in TLA+

slurmjobpacker places batch jobs on a Slurm cluster. A daemon, `sjpd`
(`sjp/daemon.py`), watches nodes and queue and writes a policy table; a
`job_submit` plugin in slurmctld (`lua/sjp.lua`) reads the table at every
submission, sets the job's partitions and, when the job can start at once, pins
it to a node. `sjpd` also undoes pins that did not start, widens jobs that
starve, and lifts CPU caps for a moment when idle hardware cannot be used
because of them.

The modules here model the parts of it where several threads, processes and people
work on the same state, and where things fail half way. TLC checks them on small
instances; TLAPS proves for all sizes, under the hypotheses listed below, every
invariant and every action property that the passing runs check. Liveness stays
with TLC.

## Parts of the system

| part | state it keeps | operations | talks to |
|---|---|---|---|
| node polling, `poll_nodes` | `Shared.nodes`, `nodes_at` | read nodes, partitions, reservations; publish under the lock | Slurm, `score`, `act` |
| scoring, `score`/`score_once` | last signatures, `last_write`, `snap` | build the table, decide whether to write, write `policy.lua` | reads `Shared`, writes the file the plugin reads |
| queue polling, `poll_queue` | `Shared.jobs`, `pending`; `released`, `widened` | shadow decisions, `release_pins`, `widen_starving` | Slurm, `act`, `score` |
| acting, `act`/`act_once` | `limiters`, `pulse_record`; `flexed`, `flex_seen` | pulse the caps of a QOS (`global`) or move single jobs (`flex`) | Slurm, `state_file` |
| main thread, `run` | phase of the run | restore caps at startup and shutdown, start and join the threads | systemd, all threads |
| `LimitPulse` (`limits.py`) | base and current caps, streak, times | `observe`, `reset`, `set_base` | called by `act` and the main thread |
| policy (`policy.py`) | none | score partitions, build and render the table, pick a node | called by `score`, mirrored by the plugin |
| plugin (`sjp.lua`) | cached table with decrements, `recent` | load the table, check its age, place, pin | slurmctld, the table file, the disable file |
| Slurm wrappers (`slurm.py`) | the actuation switch | run one command with a timeout | Slurm |
| the rest | | configuration, narration, report, web view, fitting, simulation, packaging | |

`PROJECT.json` lists all of them as components, with what is and is not modelled.

What makes this code hard is not any single function. Four threads share
snapshots without waiting for each other, so everything is decided on state that
is already old. A file carries decisions to another process that has its own
clock checks and its own cache. Commands take up to thirty seconds, may time out
and land all the same. The process is restarted at any point, with one small
file to remember by. And people change the same caps and touch a disable file at
any time. What should hold nevertheless:

* placement: no node is promised more than it had, no decision is made from
  state older than the configuration allows, no pin is made that nobody will
  release, and the plugin never goes without a usable table for good;
* caps: always the base or one raise of it, the base on disk while they are
  raised, raised briefly, with a cooldown, and what an admin sets wins;
* upkeep of jobs: every pin that did not start is released and nothing of the
  user's own is touched; moves to the flex QOS never exceed the free space.

`PROJECT.json` names each hazard at its line with the properties that cover it.

## Modules

| module | what it is |
|---|---|
| `PlacementTable` | poll -> score -> table file -> plugin, with clocks, modes, faults |
| `PlacementTableProofs` | theorems about it |
| `MCPlacementTable` | two nodes for TLC |
| `CapPulse` | the pulse of the caps of one QOS: `LimitPulse`, the act thread, the main thread, Slurm, `state_file`, the admin |
| `CapPromise` | what the pulse promises, in three actions |
| `CapPulseProofs` | theorems about `CapPulse`, among them that it implements `CapPromise` step by step |
| `MCCapPulse` | a QOS with two different caps for TLC |
| `JobUpkeep` | a pending job, the queue thread that drops its pin and widens its partitions, slurmctld and the user |
| `JobUpkeepProofs` | theorems about `JobUpkeep` |
| `MCJobUpkeep` | a job placed in two of three partitions for TLC |
| `FlexMoves` | flex mode: jobs moved to the flex QOS and back, the act thread with its memory, the two polls it reads, slurmctld, users |
| `FlexMovesProofs` | theorems about `FlexMoves` |
| `MCFlexMoves` | two jobs on one or two nodes for TLC |
| `PolicyTable` | the decisions of `policy.py` and the plugin's copies of them, as operators |
| `PolicyTableProofs` | lemmas and theorems about these operators: what each decision returns, and that the twins agree |
| `PlaceJob` | placement over time with these decisions: jobs, reservations, polls, the table, `sjp.place`, dry runs |
| `PlaceJobProofs` | theorems about `PlaceJob` |
| `MCPlaceJob` | three nodes in two partitions, two reservations for TLC |
| `SetLemmas` | least elements, `Max`, `Min` and sums over finite sets, for the proofs |

### PlacementTable

`load` and `down` are the cluster. `poll` is what a running `poll_nodes` has
read and not yet published; `nodes` is `Shared.nodes`. `draft` is a table that
`score_once` has rendered and not yet written; `table` is the file. `loaded`
and `room` are the plugin's `cache`: whether it holds this very table, and its
nodes' free space with the pins taken off. `charged`, `sinceEnforce` and the
`lag` fields are history variables: the program has no way to know them, the
properties are about them.

Actions follow the places where other actors can get in between: a poll is
`PollRead` and `PollPublish` (or `PollFail`), because `nodes_at` is stamped only
after two more commands and the lock; a score is `Score` and `Write` (or
`WriteLost`), because the signature is updated before the write is tried. A
submission is one step: slurmctld calls the plugin for one job at a time. `Kill`
stops `sjpd` anywhere; systemd's `RuntimeDirectory` may take the table with it.

Time is counted in steps (`Tick`) and kept as ages. A thread that is due runs
before time goes on (`Punctual`): a poll takes at most `PollMax`, a score at
most `ScoreMax`. Both are bounded in the code by the commands' timeouts. The
rounding of `os.time()` and of `generated_at` to whole seconds is below one
step. Ages stop growing one step past anything they are compared with.

Abstracted: sizes are one number, not CPUs and memory. Which partitions a job
may use is the constant `Reach`, the `PriorityTier` the constant `Rank`. Which
of the good nodes of the highest rank wins, and whether the winner is better
enough to pin, is left open: the model pins to any of them or not at all, which
contains everything the weighing in `pick_node` can do. `Score` may also write
although neither free space nor a refresh asks for it, because another part of
the table (decisions, users' room, tiers) may have changed. Reservations that
start later and users' room are not modelled. A pin counts against the whole
table entry, as in the code; that a later table may be made from an older poll
than the pin is part of what `PinsFitTable` does not promise. What this module
leaves open, the decisions and the reservations, is the subject of `PlaceJob`,
which in turn leaves out threads, files and faults.

### CapPulse

One QOS, enforce mode (in the other modes nothing is applied); `act_once`
handles QOSes one after the other and they share nothing but the record file.
`lim` is its `LimitPulse`, `record` its entry of `pulse_record`, `disk` the one
in `state_file`, `caps` what Slurm has. `work[t]` is the change thread `t` is
carrying out: it goes through `follow` (`follow_admin`'s read and decision),
`set` (`set_caps`: blocked or not, record first when raising), `send` (the
command) and `forget` (removing the record after a step back). Every stage is a
step, so the other thread, the admin, a crash or the disable file can come
between. `phase` is the main thread's progress through `run`. Time is counted
in act intervals; what the act thread sees of the cluster (idle, filled up,
jobs held that would fit) is any combination the thresholds allow.

Caps are pairs of numbers, 0 where none is set. `wanted`, `raisedFor` and
`sinceLowered` are history. `sinceLowered` counts from the moment a raise ended in
Slurm, whoever ended it: a step back that lands, or an admin who sets other caps
(`AdminSets`). So the cooldown is owed after a pulse that was ended by hand too.

Not modelled: a command that still lands after `sjpd` itself has died, and two
threads using the same temporary file at once. Both need the shutdown to be cut
short (a failed join, or a kill while a command is under way), and a shutdown
that is cut short is already enough to lose the record (`join` below).

### JobUpkeep

One job (`release_pins` and `widen_starving` decide job by job and catch what
goes wrong with one). `state`, `node`, `parts`, `mark`, `helped` and `waited`
are what Slurm knows of it; a node list is none, sjp's pin, or the user's own,
and of the AdminComment only the mark matters. `row` is the line of squeue a
poll has read, `pc` what the queue thread does next for it: `pin comment` and
`drop`, `restore` for `release_pins`, `comment` and `widen` for `widen_starving`.
A row leads to at most one of the two, as one needs a node list and the other
needs none. Each `scontrol` is a step, so the job can start, end, be requeued or
be changed by its user before it, and sjpd can die. An update is carried out
(`Update`), comes too late for a job that has started (`UpdateTooLate`, which
counts as done, `daemon.py:654`), is answered with EAGAIN (`UpdateBusy`), or fails,
carried out or not (`UpdateLandsLate`, `UpdateFails`). Slurm's one rule that
matters is in `Accepted`: partitions a required node is not in are refused.

`mishaps` is history: what was left undone for this job, or happened to it, so
that the properties can say exactly when they hold. `release` and `widen` stand
for this run's single attempt at either and go with a restart, which forgets
`released` and `widened`; `restore` (a release left half done), `late` (the pin was
to go when the job had started) and `replaced` (the user put a node list in
place of the pin) stay.

Abstracted: `submit` and `eligible`, from which the two limits count, are one
clock; slim and fat are the constant `Budget`; arrays, GPU and multi-node jobs,
which `widen_starving` skips, are jobs it does not look at. `shadow` only logs.

### FlexMoves

`job` is what Slurm knows of a job: where it is (pending, on a node, gone), its
QOS, whether the CPU cap holds it, and the `qos=own>flex` mark in its
AdminComment. `pend` is the last queue poll, one kind of row per job; `nodes`
the last node poll, an unusable node left out. `flexed` and `seen` are the
daemon's dictionaries, with ages for times. `act` is one pass of `act_once`:
the rows and the free space it copied under the lock, which jobs are still to
be looked at, and the command under way. A pass is `ActBegin`, then `PutBack`
for every job in the flex QOS that this run did not move, or moved
`RevertAfter` ago (`unflex`), then `FlexBegin`, which forgets jobs no longer
pending and takes what earlier moves claim off the free space, then `Move` in
order of priority onto the tightest node (`flex`), then `ActEnd`. `PutBackUnread`,
`MoveUnread` and `UsersUnread` are the early returns when a comment or the
associations cannot be read. Between `Move` or `PutBack` and its command
(`CommandLands`, `CommandMissed`) everybody else can act: the job may start, be
cancelled or be set to another QOS by hand, the disable file may appear, sjpd
may die. Polls run at any time, also in the middle of a pass.

In the code a move is noted in `flexed` whatever `intend` made of it
(`Counted`); putting back is blocked by the mode but not by the disable file
(`Blocked`); a command back leaves the mark as it is (`Landed`).

`moved`, `marked` and `since` are history: the node a job now in the flex QOS was
counted against, the jobs a move has ever reached, and when this run last
changed a job's QOS. `fresh` is history too: nothing started since the nodes
were read.

Abstracted: the size of a job and the space of a node are one number, so "the
tightest fit" is by the number that also decides whether it fits. The
associations (`flex_users`, read every ten minutes) are the constant
`MayUseFlex`. The idle share is a sum of free space against `MinIdle`. Arrays, GPU
and multi-node jobs, which `flex` skips, are jobs it does not look at. A step of
time is longer than a pass. A command that times out but lands is `CommandLands`:
for a move the program notes the same either way, and for a step back it notes
nothing. The three tries of `apply_retrying` are one command that lands, comes too
late or fails; `JobUpkeep` has them one by one.

### PolicyTable and PlaceJob

`PolicyTable` has no variables. Its operators carry the names of the functions
in `policy.py`; where `sjp.lua` has a copy of its own, it is an operator of its
own with the Lua name (`bucket`, `keep_feasible`, `packed_choice`, `free_of`), so
that the two can be compared. Partitions in a row are a set: their order is
fixed by name. Capacity scores are integers, `phi` multiplied by a common
multiple of the demand's ratios; a ratio of memory per CPU is a fraction, and
the difference of two logarithms a comparison by cross-multiplication.
`keep_feasible` has a set of answers, because Lua's `pairs` visits the largest
partitions in any order. The table's third index, the walltime, is left out:
`build_table` gives all of them the same row. So is `time_cost`
(`[pin] time_aware`, off by default).

`PlaceJob` runs these decisions. `running` is what Slurm runs, `queue` the jobs
in reservations and the CPUs of the user's jobs as `poll_queue` last read them,
`nodes` the node poll after `reserve`, `table` the table, `room` the plugin's
copy with pins counted off. `CanStart` is Slurm's own rule, taken from its role
here: a job starts on a node if its CPUs and memory are there until its limit,
next to the running jobs and the CPUs of every reservation active by then. Jobs
start (pinned or not, in a reservation or not, on one node or several), end early
or at their limit, and time passes, between any two steps of sjpd.

Reservations and the jobs Slurm starts have any number of nodes, with a share of
their own on each (`at`). `reserve` does not know these shares: it counts the
same part of a job's CPUs on each of its nodes and rounds what is left (`UsedBy`,
`LeftOf`). The parts are counted in `Split`s of a CPU, a number every number of
nodes divides; Python's `round` takes a half to the even number (`Round`). The
code adds floating-point parts, so that a sum that is exactly a half here may be
just beside it there; that is the one difference left.

A submission is one step; a job placed without a pin changes nothing in the model
and is one of those Slurm starts by itself later. A submitted job has a size, a
limit and options (`Options`): those for which `place` leaves it to the site
(`Declined`), those for which it is placed and not pinned (`NotPinned`), and the
two that change its memory (`job_mem`: no request counts as 512 MB, `MemFloor`) or
its QOS. The submitted jobs are all one user's, in one of two QOSes, of which one
has the cap `Cap`; `user_room` is what the table says is left of it, nothing for a
user without running jobs (`table.left`), and `user_qos` the QOS most of the user's
CPUs are in, by which the plugin judges a job without `--qos` (`table.main`).

`evaluate` is a dry run's account of a job it first sees pending, in observe mode.
It has a `pin_eligible` of its own (`dry_eligible`, `policy.py:206`), which checks less
than the plugin's (`pin_eligible`, `sjp.lua:252`) and, in one point, more: it takes
no job of several tasks even with `-N 1`. And it raises small memory requests to
512 MB (`daemon.py:461`).

The field `current` is history: the nodes on which nothing has started since they
were read that the data lacks, and where each job of a reservation that `reserve`
counted was there, with at least an even part of its CPUs (`PartsAreThere`). It says
what the properties except in terms of the jobs, not of what `reserve` made of them:
with a wrong split, `PlacedCanStart` fails.

## Runs

Bounds are the smallest at which the case in question happens; the number of
faults in a behaviour is bounded by `FaultBudget`, and each run says which kinds
may happen.

| run | question, instance and answer |
|---|---|
| `PlacementTable_pins` | Do pins stay within the table, young enough, and with somebody to release them? Two nodes of sizes 2 and 1, jobs of size 1, so a table can be used up; load up to 3, so a node can be over-claimed; three ages of different length; two faults of any kind but a slurmctld restart; one change of the cluster; the mode changes between `advise` and `enforce` at restarts. `TypeOK`, `PinsFitTable`, `PinStateAgeBounded`, `PinsHaveAReleaser` hold. |
| `PlacementTable_recovers` | Is the refresh early enough, and does a lost write heal? The default proportions (`policy_max_age` well above `pin.max_age`, intervals of one), one fault of any kind, two changes of the cluster. `TableNeverStale` holds until something goes wrong, and would not with a refresh for `policy_max_age` alone (polls and writes take no time in this run; the theorem `RefreshKeepsFresh` is about slow ones too); `PluginRecovers` holds whatever goes wrong. |
| `CapPulse_promise` | Can the caps get lost or stay up? Up to six faults among failing reads, failing or timed-out raises, a failing restore at shutdown, stops and crashes at any step, the disable file. `TypeOK`, `RaisedOnRecord`, `RaisedBriefly` hold, and with fairness `KeepsPromise`: `CapPulse` implements `CapPromise`, so raised caps come back. |
| `CapPulse_admin` | Does the admin win? Caps are changed by hand three times, to higher, mixed and removed caps, but not between sjpd's read and its write. `BaseOrRaised` and `CooldownKept` hold, the latter measured on what Slurm has, with raises that fail or land although they were taken for failed. |
| `CapPulse_startup` | violation: a failed restore at startup makes the next pulse raise the raised caps (`config.py:97-99`). |
| `JobUpkeep_release` | Is every pin released and every starving job widened, and nothing else touched? Three faults of any kind, restarts into `advise` and `enforce`, all kinds of submitted job, pins whose node is in one or both of the job's partitions, `release_after` shorter than the budget. `TypeOK`, `MarkedReleased`, `UserNodeListKept`, and with fairness `PinReleased` and `WidenedInTheEnd` hold. |
| `JobUpkeep_comment` | violation: after one failed `scontrol show job` a pin stays (`config.py:64-65`, `daemon.py:563`). |
| `FlexMoves_fit` | Do moves stay within what is free, once each, and only for sjp's own jobs? Two jobs of size 1 and two nodes of size 1, one with a reservation that the second job would run into; one fault of any of the twelve kinds, at any step. `TypeOK`, `MovesFit`, `NoPingPong`, `StrangersLeftAlone` hold. Without subtracting earlier claims `MovesFit` fails, for the second job of a later pass is counted against space the first has not taken yet. |
| `FlexMoves_back` | Does every job that was moved for nothing go back, and every job that would fit get moved? One node of size 2, with the reservation of size 1; two faults among failing reads, failing commands either way, a restart, the disable file. With fairness `GoesBack` and `MovedInTheEnd` hold, the latter but for moves that failed and are still counted. |
| `FlexMoves_blocked` | violation: one failed command to the flex QOS and the job stays held beside free space (`config.py:90-91`, `daemon.py:797`): its own claim, noted for a move that did not happen, fills the node. |
| `PlaceJob_placed` | Does a placed job start, and are the decisions right and the same everywhere? Three nodes, two in each partition, one of them shared; one reservation of half a node still to come, one of half a node and a whole one that begins and ends, with jobs on one of its nodes, even over both and uneven; twelve kinds of job with shapes in different buckets: on edges, larger than their bucket's shape, too large for any node, below 512 MB, without a limit or a memory request, held, of several tasks with and without `-N 1`, with `--reservation`, without `--qos`; two steps of time, two jobs that start; a cap of two CPUs for their user, so that one running job can be all there is; the table may be a step old, and the nodes in it another. `TypeOK`, `PlacedCanStart`, `AnswerHoldsJob`, `DryRunAgrees`, `RowsAdmit`, `PinKeepsTier` hold. |
| `PlaceJob_caps` | violation: in a partition of unlike nodes the cap is not "each partition's largest node" (`policy.py:270`), and a job is given only a partition that cannot hold it. |

Two steps of time are enough for `PlaceJob`: a reservation can be still to come
when the nodes are read, begun when the job is submitted, or over; two jobs can
use up a node, leave the cluster busy, or be a job of a reservation and a pin.
Memory is counted in quarters of a GB, so that a job can be smaller than
`MemFloor`; a reservation of one core of a node of two threads takes two CPUs.

Two nodes are enough for `PlacementTable`: a pin needs two candidates, nodes do
not interact otherwise, and the theorems cover any number. Pulse, cooldown and
hysteresis of two or three are enough to be inside, at the end of and beyond
each of them. Each violation is a finding in `PROJECT.json` with the line that
says otherwise.

### What the passing runs leave out

A fault that is not among a run's `Faults` breaks one of its properties. These
are the limits of what sjpd promises; each is reproduced by putting the fault
into the passing run's cfg.

| fault | breaks | why |
|---|---|---|
| `ctld` in `_pins` | `PinsFitTable` | the decrement lives in the plugin's cache (`sjp.lua:405-423`), which a slurmctld restart empties |
| node state as old as `pin.max_age` alone in `PinStateAgeBounded` | `PinStateAgeBounded` | `config.py:66` says "this fresh", but `generated_at` is the time of the score (`daemon.py:388`), which accepts nodes up to `policy_max_age` old (`daemon.py:338`); two failed polls and a refresh in between show it |
| `startup` in `_promise` | `RaisedOnRecord` | see `CapPulse_startup` |
| `lower` in `_promise` | `RaisedBriefly` | when the command back to base fails it is only logged (`daemon.py:133`, `909`), and the limiter has been reset (`limits.py:67`): against `limits.py:8`, "never raised for long", the caps stay up until a later pulse ends or sjpd stops |
| `join` with `stop` in `_promise` | `RaisedOnRecord` | the shutdown waits three seconds for the act thread (`daemon.py:1022`), whose command may take thirty; the restore finds base caps, removes the record (`daemon.py:986`), and the raise lands with none, against `daemon.py:954-955` |
| `write` in `_promise` | `RaisedOnRecord` | a record that cannot be written is logged and the caps are raised without it (`daemon.py:963`) |
| `drained` in `_promise` | `RaisedBriefly` | `act_once` returns before the limiters when no node is usable (`daemon.py:713-714`), so a pulse goes on |
| `read` in `_admin` | `BaseOrRaised` | `follow_admin` cannot see the caps and the step back goes on over a change by hand (`daemon.py:865-869`) |
| `stop`, `kill` in `_admin` | `CooldownKept` | the cooldown is in memory only (`limits.py:34`) |
| `stop`, `kill` in `_admin` | `BaseOrRaised` | a change by hand during a pulse is put back by the restore at shutdown or at the next start (`daemon.py:981-984`) |
| `comment`, `drop`, `disable`, `requeue` in `_release` | the properties without their exceptions | `released` and `widened` are set before anything is done (`daemon.py:572`, `620`): a job whose comment cannot be read, whose update fails, which is due while the disable file is there, or which starts in that moment and is requeued, is not looked at again by this run |
| `restore`, `choose` in `_release` | `UserNodeListKept` without its exception | the mark still says pin (`daemon.py:588`), so that after a restart the user's node list is taken for the pin, and the partitions, widened by then, are narrowed again |
| no `current` in `PlacedCanStart` | `PlacedCanStart` | a job of a reservation that ended after the last queue poll still counts as using reserved CPUs (`daemon.py:191-209`), which are then free for others in the table for up to `queue_poll_interval`; Slurm does not start a job there, and `release_pins` takes the pin off in the end |
| no `PartsAreThere` in `current`, for a job spread unevenly | `PlacedCanStart` | `daemon.py:196` counts the same part of a job's CPUs on every one of its nodes. With a job of 3 and 1 CPUs on two reserved nodes of 4, 2 count as used on each, and the second node shows 4 - (1 + 2) = 1 free CPU that is reserved, against `daemon.py:178-182`, "so every decision sees them as taken". It lasts as long as the job. The other way, on the first node, `reserve` takes more than is there, which only hides space |
| `OnlySpace` in `PlacedCanStart` | `PlacedCanStart` for jobs placed without a pin | `place` sets partitions by space alone: a job with `--exclude`, `--gres`, `--exclusive`, a node list, a later start or a hold, or one whose default memory is more than 512 MB, may not be able to start there; it is not pinned (`sjp.lua:257-282`) |
| jobs below 512 MB or without a memory request in `DryRunAgrees` | `DryRunAgrees` | `evaluate` raises them to 512 MB and takes Slurm's default for the request (`daemon.py:461`); the plugin takes a smaller request as it is and no request for 512 MB (`sjp.lua:302-306`), so that the two look up different buckets |
| jobs the plugin declines in `DryRunAgrees` | `DryRunAgrees` | a dry run skips GPU, `--constraint` and several-node jobs (`daemon.py:452-454`), but not those with a reservation, interactive ones and those with `--mem=0` (`sjp.lua:358-369`), and reports a placement for them |
| jobs without `RulesShown` in `DryRunAgrees` | `DryRunAgrees`, the node | `--exclude`, `--gres` without a GPU, `--exclusive`, an admin comment and `-N 1` are not in squeue's rows, and a job without `--qos` is judged by its own QOS in a dry run (`daemon.py:508`) and by that of most of the user's CPUs in the plugin (`sjp.lua:288`) |
| pins counted since the table in `DryRunAgrees` | `DryRunAgrees` | only the plugin counts them (`sjp.lua:423`) |
| no `CapKnown` in `PlacedCanStart` | `PlacedCanStart` | the plugin counts its pins against the nodes (`sjp.lua:405-423`) but not against the user's room (`sjp.lua:289`), and a user without running jobs has no entry there: a burst of one user's jobs is pinned beyond the cap, and `release_pins` takes the pins off |
| no `Miscounted` in `MovedInTheEnd` | `MovedInTheEnd` | see `FlexMoves_blocked`; the disable file does the same |
| something starts or a step back fails before a move, in `MovesFit` | `MovesFit` without its exceptions | nodes are as old as the last poll, and what could not be put back is no longer counted (`daemon.py:842`) |
| `hand` in `_fit`, with `OthersLeftAlone` for `StrangersLeftAlone` | `OthersLeftAlone` | a step back leaves the mark (`daemon.py:846`), so that a job moved once is taken for sjp's whenever it is in the flex QOS, though `daemon.py:844` says of one put there by someone else "not sjp's to move" |
| `AdminAnytime = TRUE` in `_admin` | `BaseOrRaised` | caps are read, compared and set in separate commands (`daemon.py:865`, `909`) |

### Fairness

`PlacementTable!Fairness`: systemd restarts `sjpd` (`Restart=always`), its
threads' loops go on (each catches every exception, `daemon.py:302,323,340,700`),
time passes. Not assumed: that users submit, that the admin removes the disable
file, that anything fails or succeeds; `PluginRecovers` has as its premise that
the daemon stays up, enabled, in a writing mode and with a usable node.

`CapPulse!Fairness`: the act and the main thread go on with what they have
begun, including the attempt of each command, systemd restarts `sjpd`, time
passes. That every fault is finite is the bound `FaultBudget`.

`JobUpkeep!Fairness`: systemd restarts `sjpd`, the queue thread goes on with
what it has begun (it catches everything, `daemon.py:323`; every command has a
timeout), time passes. Not assumed: that jobs start or end, that users do
anything, that the admin removes the disable file.

`FlexMoves!Fairness`: systemd restarts `sjpd`, both polls and the act thread go on
(`daemon.py:302`, `323`, `700`), and time passes: strongly fair, because a pass of
the act thread ends before the next step of time and time stands still during
it. Not assumed: that jobs start or end, that a command succeeds (that failures
are finite is `FaultBudget`), that the admin removes the disable file.

## Proofs

Every theorem is about every value of the constants that the named `ASSUME`s of
its module admit. Where a theorem has a hypothesis beyond them, the next table says
what it asks, why the code or its defaults justify it, and what happens without.

| hypothesis | theorem | what it asks and why |
|---|---|---|
| `"ctld" \notin Faults` | `PinsFit` | no slurmctld restart: it empties the plugin's cache, the fault table above |
| `RefreshInTime` | `RefreshKeepsFresh` | a table that a score finds not yet due for a refresh is still fresh when the next score has written. With the defaults (`score_interval` 1, `policy_max_age` 300, `pin.max_age` 10) a refresh is due after 5 s, so it holds for scores that take up to 4 s |
| `PollsInTime` | `RefreshKeepsFresh` | a snapshot is replaced before it is too old to be scored; with the defaults for polls of less than 150 s, and the three commands of one time out after ten seconds each (`slurm.py:26`) |
| `Recoverable` | `CapsAreBaseOrRaised` and the three after it | steps back, the restore at startup, the state file and the shutdown's join do not fail, and nobody else sets caps: each of the first four is a row of the fault table, the last is `Undisturbed`'s subject |
| `Undisturbed` | `CapsFollowAdmin`, `CooldownIsKept` | one run of sjpd with an admin, in which only raises fail, the cluster is drained or the disable file comes and goes; and none of the caps set by hand are exactly a raise of other caps of theirs, for `follow_admin` compares with the raised caps and cannot tell those from its own |
| `OneNodeHasAll` | `AnswersHoldJobs` | each partition has one node with its most CPUs and its most memory; `PlaceJob_caps` is what happens without |
| `StartInTime` | `DryRunsAgree` | besides the exceptions in the property itself (the fault table above): no reservation starts a fortnight or more from the beginning: a dry run takes no limit for a fortnight (`slurm.py:245`), the plugin for ever (`sjp.lua:182`) |

`PlacementTableProofs` proves, for every cluster, every value of the ages and
every number of faults:

* `TypeCorrect`: `Spec => []TypeOK`. The substance is that free space never goes
  below 0 for a node that is up although jobs and reservations may claim more
  than there is, and that the cache stays a table of free space under
  decrements.
* `PinAgeBound`: `Spec => PinStateAgeBounded`. The invariant behind it is
  `LagsBounded`: what a snapshot, a draft and a table had on them in age when
  they got their stamp, bounded by the poll's timeouts and the scoring age
  check. It needs the poll's own clock (`sincePoll <= PollMax` while one is
  running), which the property does not mention.
* `PinsReleasable`: `Spec => PinsHaveAReleaser`. The invariant is
  `EnforceIsRecent`: a table that pins is at least as old as the last moment of
  enforce mode. It holds across restarts because the mode changes only with one.
* `PinsFit`: without slurmctld restarts, `Spec => []PinsFitTable`. The invariant
  is `CacheAddsUp`: what the cache has left plus what has been pinned is what the
  table says, node by node. A slurmctld restart breaks exactly this.
* `RefreshKeepsFresh`: `Spec => []TableNeverStale`, a race of five clocks. The
  invariant has one part per handover. While nothing fails and a node stays usable, threads
  are punctual, a snapshot is never older than one poll interval and one poll,
  and either a table has just been written or the last score found one that no
  refresh was due for. That a usable node is left is counted: each change of the
  cluster takes down one node at most (`DownCounted`).

`CapPulseProofs` proves about the pulse of the caps, for any caps, ceiling above
one, pulse, cooldown, hysteresis and number of faults:

* `TypeCorrect`: `Spec => []TypeOK`, with every fault and any admin. It needs
  `WorkHasLimiter`: a thread that carries out a change has a limiter to do it
  for.
* Under `Recoverable` (the assumption that steps back, the restore at startup and
  the state file do not fail, the shutdown's join does not time out, and nobody
  else sets caps): `CapsAreBaseOrRaised`, `BaseIsOnDisk` and, if there is a usable
  node at every act tick, `CapsAreRaisedBriefly`. `ImplementsPromise` is the
  safety half of `KeepsPromise`: initial states map to initial states and every
  step to a step of `CapPromise` or a stutter.

  None of the properties is inductive. Their invariant `SInv` says where the base
  is at every point of every thread: the caps are up only with the base on disk
  (`CapsKnown`); memory and disk hold the same record while sjpd is running, and
  only a running sjpd has changes under way (`MemoryAgrees`); the limiter has the
  right base and is raised only to one raise of it (`LimiterKnows`); a change
  under way is a raise from base with the record written before the command is
  sent, or a step back with the limiter at rest, and the record is removed only
  with the caps at base (`WorkMakesSense`); and caps that are up always have
  somebody to lower them, the limiter, a change under way, or the restore at the
  next start (`UpHasAnEnd`). `Brisk` adds the clock: caps have been up for no
  longer than the limiter's own `since`, which a limiter that has run in this
  interval keeps short of a pulse.
* Under `Undisturbed`: `CapsFollowAdmin` (`BaseOrRaised`) and `CooldownIsKept`
  (`CooldownKept`), with an admin who changes the caps at rest and in the middle
  of a pulse. `SInv` is false there, for its base never changes; `HInv`
  takes its place. It ties the limiter to what the admin wants instead: at rest the
  caps are as wanted and the limiter's cooldown began no later than they came back
  (`RestsAtWanted`); during a pulse they are the pulse's, with the base on disk, or
  already the admin's (`PulseKnown`); a raise under way starts from what is wanted,
  and a step back from either (`ChangeByHand`). TLC checked it on `CapPulse_admin`
  before it was proved.

`JobUpkeepProofs` proves, for any partitions, limits, number of tries and faults:

* `TypeCorrect`: `Spec => []TypeOK`.
* `ReleasedMeansDropped`: `Spec => []MarkedReleased`. It needs `DroppedFirst`: when
  the second command of a release is due, the pin is off or the job had started.
* `OwnNodeListKept`: `Spec => UserNodeListKept`. The invariant `MarkTellsPin` ties the
  mark to the node list across all steps: a job whose mark says pin has its pin,
  is between the two commands of its release, or has one of the two mishaps the
  property excepts.

`FlexMovesProofs` proves, for any jobs, nodes, sizes, times, modes and faults:

* `TypeCorrect`: `Spec => []TypeOK`. It needs the parts of a command: one to the
  flex QOS names a node and a mark, one back names neither.
* `StrangersKept`: `Spec => StrangersLeftAlone`. The invariant is `MarksOK` with
  `CommandOK`: a job has a mark only if a move has reached it, and a command back
  is under way only for a job that had one when its comment was read; that stays
  true whatever happens to the job in between, for a mark is never forgotten
  while the job exists.
* `NoPingPongs`: `Spec => NoPingPong`. The invariant is `AgesOK`: `flex_seen` is
  stamped before the command is sent, so it is never older than what this run
  last did to the job, and `flex` looks only at jobs it is old enough for. It
  survives a restart because the property is about one run.
* `Invariance` is their common invariant `IInv`, one lemma per action.
* `MovesAddUp`: `Spec => MovesFit`, without any hypothesis: sums of sizes over
  sets of jobs, across passes, late polls, failed commands and restarts. The
  invariant is `FInv`. `AccountedFor` is its heart: of every job that counts against
  a node, sjpd has the claim; or it is putting the job back; or it has forgotten
  the job, in a restart, and then moves no other before it has put this one back.
  `FreeIsFree` says that what the act thread holds for free is free beside all of
  these, at each stage of a pass. TLC checked `FInv` on `FlexMoves_fit` first.

`PolicyTableProofs` proves about the decisions, for any partitions, nodes, edges
and demand: `LookupTwins`, that `plugin_lookup` in Python gives the plugin's
answer for every table and every job that some partition can hold (`bucket` and
`bucket_index` agree on ascending edges); `LossBounds`, that a placement never
gains measured space nor loses more than the node has; `ChooseAdmits`, which
partitions a bucket may name. Its lemmas say what `free_of`, `pick_node` and
`keep_feasible` return.

`PlaceJobProofs` proves, for any cluster, reservations and jobs:

* `DataCovers`: `Spec => []IInv`, the inductive invariant. The properties speak of
  the plugin's copy and of Slurm, and neither is enough to carry from step to
  step: between them are the node poll, the table, and reservations that begin
  after the poll. `DataKnown` says that `later` in each copy is what was still to
  come at one moment in the past; `CurrentCovers` that, on each node in `current`, the
  free space of each copy leaves room for all that runs and for the reservations
  that had begun at that very moment. Jobs and reservations may be spread over
  nodes in any way. `UsedIsThere` shows that where every job has at least an even
  part, what `reserve` takes for used of a reservation is there, through the split and the
  rounding. `JobsCounted` and `ReservationsKept` keep the sums
  finite, and the jobs of a reservation within its time and, node by node, within
  its CPUs. A job of a reservation that is over counts as any other (`Spares`).
* `TypeCorrect` (`TypeOK`), `PlacedJobsCanStart` (`PlacedCanStart`), `RowsAdmitRoom`
  (`RowsAdmit`), `AnswersExist` and `AnswersHoldJobs` (`AnswerHoldsJob`),
  `DryRunsAgree` (`DryRunAgrees`), `PinsKeepTier` (`PinKeepsTier`).

The proof attempt found two places where `PlaceJob` said too little. `CanStart` did
not count a job that has reached its limit and is still there, which Slurm does; and
time limits of 0, which Slurm takes for none before the plugin sees the job, were
allowed as limits of jobs. Both are corrected, and the runs pass as before.

`SetLemmas` is what these proofs need about data. The library's induction
theorems take an operator as a parameter, which the installed provers cannot
instantiate; induction is therefore done by a minimal counterexample, a set of
naturals having a least element and a set of finite sets one that includes
no other. The models' sums are folds, `SumFunction` and `SumFunctionOnSet`, whose
definition the provers cannot unfold usefully; `SumIsSumming` ties them to a
function on the subsets, from which `SumAdd`, `SumUnion`, `SumLeq` and
`SumOfParts` follow.

Only model-checked: liveness (`PluginRecovers`, the fair half of `KeepsPromise`,
`PinReleased`, `WidenedInTheEnd`, `GoesBack`, `MovedInTheEnd`), which needs
`ENABLED` and is out of the prover's reach, and the violations.

## Not modelled

* What neither the plugin nor a dry run places (GPU jobs, `--constraint`, several
  nodes), the site's own rule for such jobs, and the choice of batch partitions from
  the configuration.
* `[pin] time_aware` (`time_cost`, the table's `busy` list): off by default, and the
  end of every running job in every state of `PlaceJob` is more than TLC can
  enumerate next to the reservations.
* More than one user, or more than one capped QOS, in `user_room`, and the minute `qos_cap` caches a cap
  for (`daemon.py:258`), during which the caps of a pulse just over may still be
  taken for the real ones: it changes which pins do not start at once.
* The plugin's memory of recent pins (`recent`), which only `time_aware` uses.
* A dry run's account of jobs that already run, and of marks read back, as in advise
  and enforce mode.
* Narration, reports, web view, fitting, tools, packaging:
  they log, format or analyse, and change nothing in the running system.

## Plan

1. Done: `PlacementTable`, `CapPulse` with `CapPromise`, `JobUpkeep`, `FlexMoves`,
   `PolicyTable` and `PlaceJob`, and theorems for all their safety properties.
2. Next: lemmas that take liveness as far as the prover goes, as the safety half
   of each promise: a job whose pin is due is always before a step that releases
   it (`PinReleased`), a moved job always one that the next pass puts back or
   has claimed (`GoesBack`).
3. A composition of `PlacementTable` and `JobUpkeep`: the table that pins and the
   run of sjpd that releases are then the same, and `PinsHaveAReleaser` and
   `PinReleased` become one promise over the life of a pin.
4. `time_cost` and more than one user in `PlaceJob`, on an instance without
   reservations.
