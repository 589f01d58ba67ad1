------------------------------ MODULE CapPulse ------------------------------
(***************************************************************************)
(* Elastic limits in global mode, for one QOS: the LimitPulse controller,  *)
(* the act thread that applies its changes, the record of a pulse on disk, *)
(* and the main thread that puts the caps back at startup and shutdown.    *)
(* sjpd runs in enforce; QOSes do not affect one another.                  *)
(*                                                                         *)
(* Caps are pairs <<per user, per account>>, 0 for a cap that is not set.  *)
(* One unit of time is one act interval: act_once runs once per unit.      *)
(***************************************************************************)
EXTENDS Integers, FiniteSets

CONSTANTS
    InitialCaps,    \* the caps of the QOS at the beginning
    Ceiling,        \* limits.ceiling
    Pulse,          \* limits.pulse_seconds, in act intervals
    Cooldown,       \* limits.cooldown_seconds, in act intervals
    Hysteresis,     \* limits.hysteresis
    AdminCaps,      \* caps an admin may set by hand
    AdminBudget,    \* bound: how often an admin does so
    AdminAnytime,   \* also between sjpd's read of the caps and its write
    Faults,         \* kinds of fault that may happen
    FaultBudget,    \* bound: how many faults happen in a behaviour
    None

CapPairs == Nat \X Nat

AllFaults ==
    {"read",        \* sacctmgr show fails in the act thread
     "raise",       \* sacctmgr modify fails or times out on a raise ...
     "lower",       \* ... on going back to base
     "startup",     \* sacctmgr fails while the caps are restored at startup ...
     "shutdown",    \* ... and at shutdown
     "write",       \* the state file cannot be written
     "drained",     \* no usable node in any batch partition at an act tick
     "join",        \* act is still busy when the shutdown's join times out
     "stop",        \* sjpd is stopped
     "kill",        \* sjpd dies
     "disable"}     \* the disable file appears

ASSUME ConstantsAssumption ==
    /\ InitialCaps \in CapPairs /\ InitialCaps[1] > 0 /\ InitialCaps[2] > 0
    /\ Ceiling \in Nat /\ Ceiling > 1
    /\ Pulse \in Nat \ {0} /\ Cooldown \in Nat /\ Hysteresis \in Nat \ {0}
    /\ AdminCaps \subseteq CapPairs /\ AdminBudget \in Nat /\ AdminAnytime \in BOOLEAN
    /\ Faults \subseteq AllFaults /\ FaultBudget \in Nat

Limiters == [base : CapPairs, cur : CapPairs, raised : BOOLEAN, since : 0 .. Pulse + 1,
             lowered : 0 .. Cooldown, streak : 0 .. Hysteresis]
Works == [pc : {"follow", "set", "send", "forget"}, change : CapPairs, before : CapPairs]

ASSUME NoneAssumption == None \notin CapPairs \cup Limiters \cup Works

VARIABLES
    caps,           \* Slurm: the caps the QOS has
    disk,           \* the record in state_file: base caps while a pulse is on
    phase,          \* main thread: down, startup, restored, running, stopping,
                    \* shutdown, saved
    record,         \* Daemon.pulse_record
    lim,            \* Daemon.limiters[qos]
    work,           \* the change each thread is carrying out, or None
    due,            \* the act interval has passed and act_once not yet run
    disabled,       \* the disable file exists
    faults, admin,  \* how many more faults and changes by hand may happen
    wanted,         \* history: the caps an admin wants, as last set by hand
    raisedFor,      \* history: how long caps have been above that under sjpd
    sinceLowered    \* history: how long ago they came back

sjpd    == <<phase, record, lim, work, due>>
history == <<wanted, raisedFor, sinceLowered>>
vars    == <<caps, disk, sjpd, disabled, faults, admin, history>>

Threads == {"main", "act"}

Fault(kind) == kind \in Faults /\ faults > 0 /\ faults' = faults - 1

-----------------------------------------------------------------------------
(* LimitPulse                                                               *)
Unset == <<0, 0>>
Known(c) == c[1] # 0 /\ c[2] # 0
Raised(c) == <<c[1] * Ceiling, c[2] * Ceiling>>

NewLimiter(base) == [base |-> base, cur |-> base, raised |-> FALSE, since |-> 0,
                     lowered |-> Cooldown, streak |-> 0]

Reset_keepsCur(l) == [l EXCEPT !.raised = FALSE, !.lowered = 0]
Reset(l) == [l EXCEPT !.raised = FALSE, !.lowered = 0, !.cur = l.base]

PulseOver_late(l) == l.since > Pulse
PulseOver(l) == l.since >= Pulse

NextStreak(l, idle, held) ==
    IF ~(idle /\ held) THEN 0
    ELSE IF l.streak = Hysteresis THEN Hysteresis ELSE l.streak + 1

MayRaise(l, streak) == streak >= Hysteresis /\ l.lowered >= Cooldown

Started(l, base) == [l EXCEPT !.base = base, !.cur = Raised(base), !.raised = TRUE,
                              !.since = 0, !.streak = 0]

(* The limiter a pulse is judged by: the one there is, or a new one with the *)
(* recorded base, else the QOS's own caps.                                   *)
Limiter == IF lim # None THEN lim
           ELSE NewLimiter(IF record # None THEN record ELSE caps)

-----------------------------------------------------------------------------
Init ==
    /\ caps = InitialCaps /\ wanted = InitialCaps /\ disk = None
    /\ phase = "down" /\ record = None /\ lim = None
    /\ work = [t \in Threads |-> None] /\ due = FALSE
    /\ disabled = FALSE /\ faults = FaultBudget /\ admin = AdminBudget
    /\ raisedFor = 0 /\ sinceLowered = Cooldown

Begin(t, change, before) ==
    work' = [work EXCEPT ![t] = [pc |-> IF t = "act" THEN "follow" ELSE "set",
                                 change |-> change, before |-> before]]

(* LimitPulse.observe, on what act_once has just seen of the cluster.       *)
Observe(l, idle, full, held) ==
    \/ /\ l.raised /\ (PulseOver(l) \/ full)
       /\ lim' = Reset(l) /\ Begin("act", l.base, l.cur)
    \/ /\ l.raised /\ ~(PulseOver(l) \/ full)
       /\ lim' = l /\ UNCHANGED work
    \/ /\ Known(l.base) /\ ~l.raised /\ MayRaise(l, NextStreak(l, idle, held))
       /\ lim' = Started(l, l.base) /\ Begin("act", Raised(l.base), l.cur)
    \/ /\ Known(l.base) /\ ~l.raised /\ ~MayRaise(l, NextStreak(l, idle, held))
       /\ lim' = [l EXCEPT !.streak = NextStreak(l, idle, held)] /\ UNCHANGED work
    \/ /\ ~Known(l.base)
       /\ lim' = l /\ UNCHANGED work

ActDue == phase = "running" /\ due /\ work["act"] = None

(* act_once for a QOS that holds jobs or has a limiter already.             *)
ActObserve ==
    /\ ActDue /\ due' = FALSE
    /\ \E idle, full, held \in BOOLEAN :
          /\ ~(idle /\ full)
          /\ lim # None \/ held
          /\ Observe(Limiter, idle, full, held)
    /\ UNCHANGED <<caps, disk, phase, record, disabled, faults, admin, history>>

(* ... for one that never held any.                                         *)
ActNothing ==
    /\ ActDue /\ due' = FALSE
    /\ lim = None
    /\ UNCHANGED <<caps, disk, phase, record, lim, work, disabled, faults, admin, history>>

(* limiter() cannot read the base of a QOS: there is nothing to pulse, ever. *)
ActUnknown ==
    /\ ActDue /\ due' = FALSE
    /\ lim = None /\ record = None /\ Fault("read")
    /\ lim' = NewLimiter(Unset)
    /\ UNCHANGED <<caps, disk, phase, record, work, disabled, admin, history>>

(* act_once returns early: no usable node in any batch partition.           *)
ActDrained ==
    /\ ActDue /\ due' = FALSE
    /\ Fault("drained")
    /\ UNCHANGED <<caps, disk, phase, record, lim, work, disabled, admin, history>>

-----------------------------------------------------------------------------
Done(t) == work' = [work EXCEPT ![t] = None]
At(t, pc) == work[t] # None /\ work[t].pc = pc
Goto(t, pc, change, before) ==
    work' = [work EXCEPT ![t] = [pc |-> pc, change |-> change, before |-> before]]

(* remember_pulse: in memory always, on disk unless the write fails (which  *)
(* is only logged).                                                         *)
Remember(base) ==
    /\ record' = base
    /\ \/ disk' = base /\ UNCHANGED faults
       \/ UNCHANGED disk /\ Fault("write")

(* follow_admin, the pulse just ended: caps that are neither the raised     *)
(* ones nor the base were set by hand and are kept.                         *)
ByHand_never(live, before, base) == FALSE
ByHand(live, before, base) == live # before /\ live # base

SetBase_new(l, new) == NewLimiter(new)
SetBase(l, new) == [l EXCEPT !.base = new, !.cur = new]

FollowLower ==
    /\ At("act", "follow") /\ ~lim.raised
    /\ \/ /\ ByHand(caps, work["act"].before, lim.base)
          /\ lim' = SetBase(lim, caps)
          /\ Remember(None) /\ Done("act")
       \/ /\ ~ByHand(caps, work["act"].before, lim.base)
          /\ Goto("act", "set", work["act"].change, work["act"].before)
          /\ UNCHANGED <<lim, record, disk, faults>>
    /\ UNCHANGED <<caps, phase, due, disabled, admin, history>>

(* ... about to raise: the caps as they are now become the base.            *)
FollowRaise ==
    /\ At("act", "follow") /\ lim.raised
    /\ \/ /\ caps = lim.base
          /\ Goto("act", "set", work["act"].change, caps)
          /\ UNCHANGED lim
       \/ /\ caps # lim.base /\ Known(caps)
          /\ lim' = [lim EXCEPT !.base = caps, !.cur = Raised(caps)]
          /\ Goto("act", "set", Raised(caps), caps)
       \/ /\ ~Known(caps)
          /\ lim' = SetBase([lim EXCEPT !.raised = FALSE], caps)
          /\ Done("act")
    /\ UNCHANGED <<caps, disk, phase, record, due, disabled, faults, admin, history>>

(* ... and the caps cannot be read: going back to base goes on, a raise     *)
(* does not (but the limiter stays raised).                                 *)
FollowBlind ==
    /\ At("act", "follow") /\ Fault("read")
    /\ IF lim.raised THEN Done("act")
       ELSE Goto("act", "set", work["act"].change, work["act"].before)
    /\ UNCHANGED <<caps, disk, phase, record, lim, due, disabled, admin, history>>

-----------------------------------------------------------------------------
(* set_caps, for either thread                                              *)
Lowering(t) ==
    \A i \in 1 .. 2 : work[t].before[i] = 0 \/ work[t].change[i] <= work[t].before[i]

(* Going back to base is allowed even with the disable file present.        *)
Blocked_always(t) == disabled
Blocked(t) == disabled /\ ~Lowering(t)

(* What remember_pulse writes: the caps to go back to.                      *)
BaseToRecord_cur(l) == l.cur
BaseToRecord(l) == l.base

SetBlocked(t) ==
    /\ At(t, "set") /\ Blocked(t)
    /\ Done(t)
    /\ UNCHANGED <<caps, disk, phase, record, lim, due, disabled, faults, admin, history>>

SetCaps(t) ==
    /\ At(t, "set") /\ ~Blocked(t)
    /\ Goto(t, "send", work[t].change, work[t].before)
    /\ IF Lowering(t) THEN UNCHANGED <<record, disk, faults>>
       ELSE Remember(BaseToRecord(lim))
    /\ UNCHANGED <<caps, phase, lim, due, disabled, admin, history>>

(* The caps change in Slurm.                                                *)
Land(new) ==
    /\ caps' = new
    /\ raisedFor' = IF new = wanted THEN 0 ELSE raisedFor
    /\ sinceLowered' = IF new = wanted /\ caps # wanted THEN 0 ELSE sinceLowered
    /\ UNCHANGED wanted

(* slurm.apply.                                                             *)
Send(t) ==
    /\ At(t, "send")
    /\ Land(work[t].change)
    /\ IF Lowering(t) THEN Goto(t, "forget", work[t].change, work[t].before) ELSE Done(t)
    /\ UNCHANGED <<disk, phase, record, lim, due, disabled, faults, admin>>

(* It fails, or it times out, in which case it may have landed all the same. *)
(* intend logs the error; the change is not tried again.                    *)
SendFails(t) ==
    /\ At(t, "send")
    /\ Fault(IF t = "main" THEN IF phase = "restored" THEN "startup" ELSE "shutdown"
             ELSE IF Lowering(t) THEN "lower" ELSE "raise")
    /\ \/ Land(work[t].change)
       \/ UNCHANGED <<caps, history>>
    /\ Done(t)
    /\ UNCHANGED <<disk, phase, record, lim, due, disabled, admin>>

Forget(t) ==
    /\ At(t, "forget")
    /\ Remember(None) /\ Done(t)
    /\ UNCHANGED <<caps, phase, lim, due, disabled, admin, history>>

-----------------------------------------------------------------------------
(* The main thread                                                          *)

(* resolve_limits: the record a previous run left.                          *)
RecordFound == disk

Start ==
    /\ phase = "down" /\ phase' = "startup"
    /\ record' = RecordFound
    /\ UNCHANGED <<caps, disk, lim, work, due, disabled, faults, admin, history>>

NextPhase == IF phase = "startup" THEN "restored" ELSE "saved"

Restoring == phase \in {"startup", "shutdown"}

ToRestore == record # None \/ (lim # None /\ lim.raised)

(* restore_caps, once: there is no pulse to end, its base is not known, or   *)
(* the caps cannot be read.                                                 *)
RestoreNothing ==
    /\ Restoring /\ phase' = NextPhase
    /\ \/ ~ToRestore /\ UNCHANGED <<lim, faults>>
       \/ ToRestore /\ ~Known(Limiter.base) /\ lim' = Limiter /\ UNCHANGED faults
       \/ ToRestore /\ lim' = Limiter /\ Fault(phase)
    /\ UNCHANGED <<caps, disk, record, work, due, disabled, admin, history>>

(* ... or the caps are at base already, and only the record goes ...        *)
RestoreForget ==
    /\ Restoring /\ phase' = NextPhase
    /\ ToRestore /\ Known(Limiter.base) /\ caps = Limiter.base
    /\ lim' = Reset(Limiter)
    /\ Remember(None)
    /\ UNCHANGED <<caps, work, due, disabled, admin, history>>

(* ... or they are not, and set_caps puts them back.                        *)
RestoreCaps ==
    /\ Restoring /\ phase' = NextPhase
    /\ ToRestore /\ Known(Limiter.base) /\ caps # Limiter.base
    /\ lim' = Reset(Limiter)
    /\ Begin("main", Limiter.base, caps)
    /\ UNCHANGED <<caps, disk, record, due, disabled, faults, admin, history>>

(* The threads start, and act runs at once.                                 *)
Run ==
    /\ phase = "restored" /\ work["main"] = None
    /\ phase' = "running" /\ due' = TRUE
    /\ UNCHANGED <<caps, disk, record, lim, work, disabled, faults, admin, history>>

(* SIGTERM or ^C: act finishes what it is doing and starts nothing new.     *)
Stop ==
    /\ phase = "running" /\ Fault("stop")
    /\ phase' = "stopping"
    /\ UNCHANGED <<caps, disk, record, lim, work, due, disabled, admin, history>>

(* run() joins its threads, for three seconds.                              *)
Join ==
    /\ phase = "stopping" /\ phase' = "shutdown"
    /\ \/ work["act"] = None /\ UNCHANGED faults
       \/ work["act"] # None /\ Fault("join")
    /\ UNCHANGED <<caps, disk, record, lim, work, due, disabled, admin, history>>

MemoryLost ==
    /\ phase' = "down"
    /\ record' = None /\ lim' = None /\ due' = FALSE
    /\ work' = [t \in Threads |-> None]

Exit ==
    /\ phase = "saved" /\ work["main"] = None
    /\ MemoryLost
    /\ UNCHANGED <<caps, disk, disabled, faults, admin, history>>

Kill ==
    /\ phase # "down" /\ Fault("kill")
    /\ MemoryLost
    /\ UNCHANGED <<caps, disk, disabled, admin, history>>

-----------------------------------------------------------------------------
Disable ==
    /\ ~disabled /\ Fault("disable") /\ disabled' = TRUE
    /\ UNCHANGED <<caps, disk, sjpd, admin, history>>

Enable ==
    /\ disabled /\ disabled' = FALSE
    /\ UNCHANGED <<caps, disk, sjpd, faults, admin, history>>

(* An admin sets the caps by hand, which ends a raise as a step back does.  *)
AdminSets(new) ==
    /\ admin > 0 /\ admin' = admin - 1
    /\ AdminAnytime \/ work = [t \in Threads |-> None]
    /\ new # caps /\ caps' = new /\ wanted' = new /\ raisedFor' = 0
    /\ sinceLowered' = IF caps # wanted THEN 0 ELSE sinceLowered
    /\ UNCHANGED <<disk, sjpd, disabled, faults>>

(* An act interval passes; act_once is done well within one.                *)
Tick ==
    /\ phase = "down" \/ (phase = "running" /\ ~due /\ work["act"] = None)
    /\ due' = (phase = "running")
    /\ lim' = IF lim = None THEN None
              ELSE [lim EXCEPT !.since = IF @ > Pulse THEN @ ELSE @ + 1,
                               !.lowered = IF @ = Cooldown THEN @ ELSE @ + 1]
    /\ raisedFor' = IF caps = wanted \/ phase = "down" \/ raisedFor > Pulse
                    THEN raisedFor ELSE raisedFor + 1
    /\ sinceLowered' = IF sinceLowered = Cooldown THEN Cooldown ELSE sinceLowered + 1
    /\ UNCHANGED <<caps, disk, phase, record, work, disabled, faults, admin, wanted>>

ActNext == ActObserve \/ ActNothing \/ FollowLower \/ FollowRaise
Apply(t) == SetBlocked(t) \/ SetCaps(t) \/ Send(t) \/ Forget(t)
MainNext == Start \/ RestoreNothing \/ RestoreForget \/ RestoreCaps \/ Run \/ Join \/ Exit
FaultNext == ActUnknown \/ ActDrained \/ FollowBlind \/ (\E t \in Threads : SendFails(t))
             \/ Stop \/ Kill \/ Disable \/ Enable

Next ==
    \/ ActNext \/ MainNext \/ (\E t \in Threads : Apply(t))
    \/ FaultNext \/ Tick
    \/ \E new \in AdminCaps : AdminSets(new)

Spec == Init /\ [][Next]_vars

(* Threads go on with what they have begun, systemd restarts sjpd, and time *)
(* passes.                                                                  *)
Fairness ==
    /\ WF_vars(ActNext) /\ WF_vars(MainNext) /\ WF_vars(Tick)
    /\ \A t \in Threads : WF_vars(Apply(t))

FairSpec == Spec /\ Fairness

-----------------------------------------------------------------------------
(* Types; and a limiter that is not raised is at its base.                  *)
TypeOK ==
    /\ caps \in CapPairs /\ wanted \in CapPairs /\ disk \in CapPairs \cup {None}
    /\ phase \in {"down", "startup", "restored", "running", "stopping", "shutdown", "saved"}
    /\ record \in CapPairs \cup {None}
    /\ lim \in Limiters \cup {None}
    /\ lim # None /\ ~lim.raised => lim.cur = lim.base
    /\ work \in [Threads -> Works \cup {None}] /\ due \in BOOLEAN
    /\ disabled \in BOOLEAN
    /\ faults \in 0 .. FaultBudget /\ admin \in 0 .. AdminBudget
    /\ raisedFor \in 0 .. Pulse + 1 /\ sinceLowered \in 0 .. Cooldown

(* limits.py: the caps are at base or, during a pulse, at Ceiling times it; *)
(* never anything else, and never a multiple of a multiple.                 *)
BaseOrRaised == caps \in {wanted, Raised(wanted)}

(* config.py on state_file: while a pulse is on, the real caps are on disk, *)
(* so that the next start restores them.                                    *)
RaisedOnRecord == caps # wanted => disk = wanted

(* limits.py: the caps are never raised for long.                           *)
RaisedBriefly == raisedFor <= Pulse

(* config.py on cooldown_seconds: minimum time at base between pulses.      *)
CooldownKept ==
    [][caps = wanted /\ caps' # wanted' => sinceLowered >= Cooldown]_vars

(* The promise of a pulse to the rest of the cluster.                       *)
Promise == INSTANCE CapPromise WITH base <- InitialCaps, raised <- Raised(InitialCaps)
KeepsPromise == Promise!Spec
=============================================================================
