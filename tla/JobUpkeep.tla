----------------------------- MODULE JobUpkeep -----------------------------
(***************************************************************************)
(* What sjpd's queue thread does to a job that stays pending: it drops a    *)
(* pin that did not start (release_pins) and widens the partitions of a job *)
(* that waits for long (widen_starving).  One job, the thread, slurmctld    *)
(* and the job's user; jobs do not affect one another here.                 *)
(*                                                                          *)
(* One unit of time is one queue poll.                                      *)
(***************************************************************************)
EXTENDS Integers, FiniteSets

CONSTANTS
    Partitions,     \* the batch partitions sjp assigns
    Feasible,       \* those that can hold the job
    From,           \* those the plugin placed it in
    Elsewhere,      \* a partition that is none of sjp's
    ReleaseAfter,   \* pin.release_after, in polls
    Budget,         \* starvation.budget_hours of the job's class, in polls
    Tries,          \* tries of apply_retrying
    Modes,          \* modes sjpd may be started in
    Faults,         \* kinds of fault that may happen
    FaultBudget,    \* bound: how many faults happen in a behaviour
    None

Commands == {"drop", "restore", "widen"}

AllFaults == Commands \cup     \* this command fails, or times out and may land
    {"queue",       \* squeue, or what else the poll does before, fails
     "comment",     \* scontrol show job fails
     "busy",        \* slurmctld answers EAGAIN
     "kill",        \* sjpd stops or dies
     "disable",     \* the disable file appears
     "reason",      \* the reason the job is pending for changes
     "choose",      \* the user gives the job a node list
     "requeue"}     \* the job is requeued after it started

ASSUME ConstantsAssumption ==
    /\ From # {} /\ From \subseteq Feasible /\ Feasible \subseteq Partitions
    /\ Elsewhere \notin Partitions
    /\ ReleaseAfter \in Nat /\ Budget \in Nat /\ Tries \in Nat \ {0}
    /\ Modes \subseteq {"observe", "advise", "enforce"} /\ Modes # {}
    /\ Faults \subseteq AllFaults /\ FaultBudget \in Nat

(* Times are counted up to the longer of the two limits. *)
WaitCap == IF Budget > ReleaseAfter THEN Budget ELSE ReleaseAfter

NodeLists == {"none", "pin", "user"}
Marks     == {"none", "placed", "pin", "released"}
PartSets  == (SUBSET (Partitions \cup {Elsewhere})) \ {{}}
Rows == [state : {"PD", "R"}, node : NodeLists, parts : PartSets,
         helped : BOOLEAN, waited : 0 .. WaitCap]

ASSUME NoneAssumption == None \notin Rows

VARIABLES
    state,          \* squeue's state of the job: PD, R, CG (leaving a node) or gone
    node,           \* its required node: none, sjp's pin, or the user's own
    parts,          \* its partitions
    mark,           \* sjp's mark in its AdminComment
    helped,         \* it is pending for a reason that more partitions help with
    waited,         \* how long it has been pending
    pinParts,       \* the partitions in From that the pinned node is in
    up, mode,       \* sjpd runs, and in which mode
    due,            \* the poll interval has passed
    pc, row,        \* what the queue thread does next; the job's row of squeue
    tries,          \* tries of the current command so far
    released, widened,  \* Daemon.released, Daemon.widened: the job is in there
    disabled,       \* the disable file exists
    faults,         \* how many more faults may happen
    mishaps         \* history: what went wrong with this job

job    == <<state, node, parts, mark, helped, waited, pinParts>>
thread == <<pc, row, tries, released, widened>>
vars   == <<job, up, mode, due, thread, disabled, faults, mishaps>>

Fault(kind) == kind \in Faults /\ faults > 0 /\ faults' = faults - 1

-----------------------------------------------------------------------------
(* As submitted: pinned by the plugin, placed by it (perhaps with a node    *)
(* list of the user's, which is never pinned), or the site's own.           *)
Submitted ==
    \/ node = "pin" /\ parts = pinParts /\ mark = "pin"
    \/ node \in {"none", "user"} /\ parts = From /\ mark = "placed"
    \/ node \in {"none", "user"} /\ parts \in {From, {Elsewhere}} /\ mark = "none"

Init ==
    /\ pinParts \in (SUBSET From) \ {{}}
    /\ node \in NodeLists /\ parts \in PartSets /\ mark \in Marks /\ Submitted
    /\ state = "PD" /\ helped \in BOOLEAN /\ waited = 0
    /\ up = FALSE /\ mode \in Modes /\ due = FALSE
    /\ pc = "idle" /\ row = None /\ tries = 0
    /\ released = FALSE /\ widened = FALSE
    /\ disabled = FALSE /\ faults = FaultBudget /\ mishaps = {}

-----------------------------------------------------------------------------
(* The poll                                                                 *)
InQueue == state \in {"PD", "R"}

Row == [state |-> state, node |-> node, parts |-> parts, helped |-> helped,
        waited |-> waited]

(* release_pins: a pending job with a node list, for too long.              *)
StalePin_helpedOnly(r) ==
    /\ r.state = "PD" /\ r.node # "none" /\ ~released
    /\ r.helped /\ r.waited >= ReleaseAfter
StalePin(r) ==
    /\ r.state = "PD" /\ r.node # "none" /\ ~released
    /\ r.waited >= ReleaseAfter

(* widen_starving: a pending job without one, for much longer.              *)
Starving_notReleased(r) ==
    /\ r.state = "PD" /\ r.node = "none" /\ ~released
    /\ r.helped /\ r.waited >= Budget
Starving(r) ==
    /\ r.state = "PD" /\ r.node = "none" /\ ~widened
    /\ r.helped /\ r.waited >= Budget

(* Both decide on the row just read, and each notes the job before it has   *)
(* done anything; a job that has left the queue is forgotten.               *)
Poll ==
    /\ up /\ due /\ pc = "idle"
    /\ due' = FALSE
    /\ \/ /\ ~InQueue
          /\ released' = FALSE /\ widened' = FALSE
          /\ UNCHANGED <<pc, row>>
       \/ /\ InQueue /\ StalePin(Row)
          /\ released' = TRUE /\ pc' = "pin comment" /\ row' = Row
          /\ UNCHANGED widened
       \/ /\ InQueue /\ Starving(Row)
          /\ widened' = TRUE /\ UNCHANGED released
          /\ \/ parts \subseteq Partitions /\ pc' = "comment" /\ row' = Row
             \/ ~(parts \subseteq Partitions) /\ UNCHANGED <<pc, row>>
       \/ /\ InQueue /\ ~StalePin(Row) /\ ~Starving(Row)
          /\ UNCHANGED <<pc, row, released, widened>>
    /\ UNCHANGED <<job, up, mode, tries, disabled, faults, mishaps>>

(* poll_queue logs the error and tries again at the next poll.              *)
PollFails ==
    /\ up /\ due /\ pc = "idle" /\ Fault("queue")
    /\ due' = FALSE
    /\ UNCHANGED <<job, up, mode, thread, disabled, mishaps>>

Finish == pc' = "idle" /\ row' = None /\ tries' = 0
Mishap(what) == mishaps' = mishaps \cup {what}

-----------------------------------------------------------------------------
(* The job's AdminComment, read for either purpose                          *)

(* release_pins: the user's own --nodelist is never touched, and releasing  *)
(* is an enforce-mode action.                                               *)
SjpPinned == mark = "pin"

CommentOfPinned ==
    /\ pc = "pin comment"
    /\ \/ SjpPinned /\ mode = "enforce" /\ pc' = "drop" /\ UNCHANGED <<row, tries>>
       \/ ~(SjpPinned /\ mode = "enforce") /\ Finish
    /\ UNCHANGED <<job, up, mode, due, released, widened, disabled, faults, mishaps>>

(* widen_starving: only jobs the plugin placed, if that gives them a        *)
(* partition more, and not while the disable file is present.               *)
Widens == mark # "none" /\ ~(Feasible \subseteq row.parts) /\ mode = "enforce"

CommentOfStarving ==
    /\ pc = "comment"
    /\ \/ Widens /\ ~disabled /\ pc' = "widen" /\ UNCHANGED <<row, tries, mishaps>>
       \/ Widens /\ disabled /\ Finish /\ Mishap("widen")
       \/ ~Widens /\ Finish /\ UNCHANGED mishaps
    /\ UNCHANGED <<job, up, mode, due, released, widened, disabled, faults>>

CommentFails ==
    /\ pc \in {"pin comment", "comment"} /\ Fault("comment")
    /\ Finish
    /\ Mishap(IF pc = "comment" THEN "widen" ELSE "release")
    /\ UNCHANGED <<job, up, mode, due, released, widened, disabled>>

-----------------------------------------------------------------------------
(* scontrol update, through apply_retrying                                  *)

(* The mark a release leaves: AdminComment with sjp:released for sjp:pin.   *)
Remarked_not == mark
Remarked == "released"

(* What a command does to the job.                                          *)
Carry(command) ==
    /\ \/ command = "drop" /\ node' = "none" /\ UNCHANGED <<parts, mark>>
       \/ command = "restore" /\ parts' = From /\ mark' = Remarked /\ UNCHANGED node
       \/ command = "widen" /\ parts' = Feasible /\ UNCHANGED <<node, mark>>
    /\ UNCHANGED <<state, helped, waited, pinParts>>

(* Slurm refuses partitions that a required node is not in.                 *)
Accepted(command) ==
    \/ command = "drop" \/ node # "pin"
    \/ command = "restore" /\ From \subseteq pinParts

(* A release is two commands, the node first.                               *)
Proceed ==
    IF pc = "drop" THEN pc' = "restore" /\ tries' = 0 /\ UNCHANGED row ELSE Finish

(* A job is widened once: partitions restored after that stay as they are.  *)
Narrowed == IF pc = "restore" /\ widened THEN {"widen"} ELSE {}

Update ==
    /\ pc \in Commands /\ state = "PD" /\ Accepted(pc)
    /\ Carry(pc) /\ Proceed
    /\ mishaps' = mishaps \cup Narrowed
    /\ UNCHANGED <<up, mode, due, released, widened, disabled, faults>>

(* What is left undone when a command does not do its part.                 *)
Undone == IF pc = "drop" THEN "release" ELSE pc

(* "no longer pending": the job has started, and that counts as done.       *)
UpdateTooLate ==
    /\ pc \in Commands /\ state \in {"R", "CG"}
    /\ Proceed
    /\ mishaps' = mishaps \cup {Undone} \cup (IF pc = "drop" THEN {"late"} ELSE {})
    /\ UNCHANGED <<job, up, mode, due, released, widened, disabled, faults>>

(* "temporarily unavailable": once more, a moment later.                    *)
MayRetry_oneMore == tries < Tries
MayRetry == tries < Tries - 1

UpdateBusy ==
    /\ pc \in Commands /\ MayRetry /\ Fault("busy")
    /\ tries' = tries + 1
    /\ UNCHANGED <<job, up, mode, due, pc, row, released, widened, disabled, mishaps>>

(* Any other error, and the last EAGAIN, end the attempt and with it the    *)
(* command that was to follow; intend logs it.                              *)
AfterError_goOn == Proceed
AfterError == Finish

(* A command that timed out may have been carried out.                      *)
UpdateLandsLate ==
    /\ pc \in Commands /\ Fault(pc) /\ state = "PD" /\ Accepted(pc)
    /\ Carry(pc) /\ AfterError
    /\ mishaps' = mishaps \cup Narrowed \cup (IF pc = "drop" THEN {"restore"} ELSE {})
    /\ UNCHANGED <<up, mode, due, released, widened, disabled>>

UpdateFails ==
    /\ pc \in Commands
    /\ \/ Fault(pc)
       \/ (state = "gone" \/ ~Accepted(pc)) /\ UNCHANGED faults
    /\ AfterError /\ Mishap(Undone)
    /\ UNCHANGED <<job, up, mode, due, released, widened, disabled>>

-----------------------------------------------------------------------------
(* Slurm and the user                                                       *)
StartJob ==
    /\ state = "PD" /\ state' = "R"
    /\ UNCHANGED <<node, parts, mark, helped, waited, pinParts, up, mode, due, thread,
                   disabled, faults, mishaps>>

EndJob ==
    /\ state # "gone" /\ state' = "gone"
    /\ UNCHANGED <<node, parts, mark, helped, waited, pinParts, up, mode, due, thread,
                   disabled, faults, mishaps>>

(* The job leaves its node, and is pending again with all it had.           *)
RequeueJob ==
    /\ \/ state = "R" /\ state' = "CG" /\ Fault("requeue") /\ UNCHANGED waited
       \/ state = "CG" /\ state' = "PD" /\ waited' \in {0, waited} /\ UNCHANGED faults
    /\ UNCHANGED <<node, parts, mark, helped, pinParts, up, mode, due, thread,
                   disabled, mishaps>>

ReasonChanges ==
    /\ Fault("reason") /\ helped' = ~helped
    /\ UNCHANGED <<state, node, parts, mark, waited, pinParts, up, mode, due, thread,
                   disabled, mishaps>>

(* The user gives the job a node list, perhaps in place of the pin.         *)
UserChoosesNode ==
    /\ state = "PD" /\ node # "user" /\ Fault("choose")
    /\ node' = "user"
    /\ IF node = "pin" THEN Mishap("replaced") ELSE UNCHANGED mishaps
    /\ UNCHANGED <<state, parts, mark, helped, waited, pinParts, up, mode, due, thread,
                   disabled>>

-----------------------------------------------------------------------------
Start ==
    /\ ~up /\ up' = TRUE /\ mode' \in Modes /\ due' = TRUE
    /\ UNCHANGED <<job, thread, disabled, faults, mishaps>>

(* sjpd forgets what it has tried, so the next run tries again.             *)
Kill ==
    /\ up /\ Fault("kill")
    /\ up' = FALSE /\ due' = FALSE
    /\ Finish /\ released' = FALSE /\ widened' = FALSE
    /\ mishaps' = IF pc = "restore" THEN (mishaps \ {"release", "widen"}) \cup {"restore"}
                  ELSE mishaps \ {"release", "widen"}
    /\ UNCHANGED <<job, mode, disabled>>

Disable ==
    /\ ~disabled /\ Fault("disable") /\ disabled' = TRUE
    /\ UNCHANGED <<job, up, mode, due, thread, mishaps>>

Enable ==
    /\ disabled /\ disabled' = FALSE
    /\ UNCHANGED <<job, up, mode, due, thread, faults, mishaps>>

(* Time passes, but not past the moment the queue is to be polled.          *)
Tick ==
    /\ ~(due /\ pc = "idle")
    /\ due' = up
    /\ waited' = IF state = "PD" /\ waited < WaitCap THEN waited + 1 ELSE waited
    /\ UNCHANGED <<state, node, parts, mark, helped, pinParts, up, mode, thread,
                   disabled, faults, mishaps>>

UpkeepStep == Poll \/ CommentOfPinned \/ CommentOfStarving \/ Update
FailedStep == PollFails \/ CommentFails \/ UpdateTooLate \/ UpdateBusy
              \/ UpdateLandsLate \/ UpdateFails
JobNext    == StartJob \/ EndJob \/ RequeueJob \/ ReasonChanges \/ UserChoosesNode
FaultNext  == Kill \/ Disable \/ Enable

Next == UpkeepStep \/ FailedStep \/ JobNext \/ FaultNext \/ Start \/ Tick

Spec == Init /\ [][Next]_vars

(* systemd restarts sjpd, the queue thread goes on with what it has begun,  *)
(* and time passes.  No fairness for jobs, users or faults.                 *)
Fairness == WF_vars(Start) /\ WF_vars(UpkeepStep \/ FailedStep) /\ WF_vars(Tick)

FairSpec == Spec /\ Fairness

-----------------------------------------------------------------------------
TypeOK ==
    /\ state \in {"PD", "R", "CG", "gone"}
    /\ node \in NodeLists /\ parts \in PartSets /\ mark \in Marks
    /\ helped \in BOOLEAN /\ waited \in 0 .. WaitCap
    /\ pinParts \in (SUBSET From) \ {{}}
    /\ up \in BOOLEAN /\ mode \in Modes /\ due \in BOOLEAN
    /\ pc \in {"idle", "pin comment", "comment"} \cup Commands
    /\ row \in Rows \cup {None} /\ (row = None <=> pc = "idle")
    /\ tries \in 0 .. Tries - 1
    /\ released \in BOOLEAN /\ widened \in BOOLEAN /\ disabled \in BOOLEAN
    /\ faults \in 0 .. FaultBudget
    /\ mishaps \subseteq {"release", "restore", "widen", "late", "replaced"}

(* A release is recorded in the job's comment only once the pin is off:     *)
(* nobody looks at a job marked as released again.  (Unless the job had     *)
(* started when the pin was to go, which counts as released.)               *)
MarkedReleased == mark = "released" /\ node = "pin" => "late" \in mishaps

(* release_pins: a node list of the user's own is never touched, also not   *)
(* one that is given to a job whose pin was released, whatever is restarted *)
(* in between.  (Unless the release was left half done, or the list took    *)
(* the place of a pin: the mark still says pin then.)                       *)
UserNodeListKept ==
    [][node = "user" => node' = "user" \/ {"restore", "replaced"} \cap mishaps # {}]_vars

(* release_after: a pinned job does not stay pending with its pin, unless   *)
(* the one attempt of this run of sjpd to release it failed.                *)
PinReleased ==
    ~<>[](/\ up /\ mode = "enforce" /\ state = "PD" /\ node = "pin" /\ mark = "pin"
          /\ "release" \notin mishaps)

(* config.py on release_after: seconds a pinned job may stay pending before  *)
(* sjpd drops the pin.                                                      *)
EveryPinReleased ==
    ~<>[](up /\ mode = "enforce" /\ state = "PD" /\ node = "pin" /\ mark = "pin")

(* The starvation guard: a job sjp placed, also one whose release was left  *)
(* half done, does not wait for ever in fewer partitions than can hold it,  *)
(* unless the one attempt of this run of sjpd to widen it failed.           *)
WidenedInTheEnd ==
    ~<>[](/\ up /\ mode = "enforce" /\ ~disabled
          /\ state = "PD" /\ node = "none" /\ helped
          /\ mark # "none" /\ ~(Feasible \subseteq parts)
          /\ "widen" \notin mishaps)
=============================================================================
