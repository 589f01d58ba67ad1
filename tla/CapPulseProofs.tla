--------------------------- MODULE CapPulseProofs ---------------------------
(* What holds of CapPulse for every value of the caps, the times and the     *)
(* number of faults: its types; as long as nothing fails that has to succeed *)
(* for the base caps to come back, that the caps are the base or one raise   *)
(* of it, that the base is then on disk, that this is brief, and that        *)
(* CapPulse implements CapPromise step by step; and, with an admin changing  *)
(* the caps by hand, that they follow the admin and the cooldown is kept.    *)
EXTENDS CapPulse, TLAPS

-----------------------------------------------------------------------------
(* A thread at work has a limiter to work with.                              *)
WorkHasLimiter == \A t \in Threads : work[t] # None => lim # None

TInv == TypeOK /\ WorkHasLimiter

(* Raised caps are caps.                                                     *)
LEMMA RaisedType == \A c \in CapPairs : Raised(c) \in CapPairs
  <1>1. \A m \in Nat : m * Ceiling \in Nat
    BY ConstantsAssumption
  <1> QED
    BY <1>1 DEF CapPairs, Raised

(* A new limiter has its type, at its base.                                  *)
LEMMA NewLimiterType ==
    ASSUME NEW base \in CapPairs
    PROVE  /\ NewLimiter(base) \in Limiters
           /\ NewLimiter(base).base = base /\ NewLimiter(base).cur = base
           /\ NewLimiter(base).raised = FALSE
  BY ConstantsAssumption DEF NewLimiter, Limiters

(* The limiter a pulse is judged by is one, there or new.                    *)
LEMMA LimiterType ==
    ASSUME TypeOK
    PROVE  /\ Limiter \in Limiters /\ Limiter # None
           /\ ~Limiter.raised => Limiter.cur = Limiter.base
  <1>1. CASE lim # None
    BY <1>1, NoneAssumption DEF Limiter, TypeOK
  <1>2. CASE lim = None
    <2>1. PICK base \in CapPairs : Limiter = NewLimiter(base)
      BY <1>2 DEF Limiter, TypeOK
    <2> QED
      BY <2>1, NewLimiterType, NoneAssumption
  <1> QED
    BY <1>1, <1>2

(* A reset limiter has its type, at its base.                                *)
LEMMA ResetType ==
    ASSUME NEW l \in Limiters
    PROVE  /\ Reset(l) \in Limiters /\ Reset(l) # None
           /\ Reset(l).base = l.base /\ Reset(l).cur = l.base
           /\ Reset(l).raised = FALSE
  <1>1. 0 \in 0 .. Cooldown
    BY ConstantsAssumption
  <1>2. /\ Reset(l) \in Limiters
        /\ Reset(l).base = l.base /\ Reset(l).cur = l.base
        /\ Reset(l).raised = FALSE
    BY <1>1 DEF Reset, Limiters
  <1> QED
    BY <1>2, NoneAssumption

(* A limiter with a pulse begun has its type, at the raised caps.            *)
LEMMA StartedType ==
    ASSUME NEW l \in Limiters, NEW base \in CapPairs
    PROVE  /\ Started(l, base) \in Limiters /\ Started(l, base) # None
           /\ Started(l, base).base = base /\ Started(l, base).cur = Raised(base)
           /\ Started(l, base).raised = TRUE
  <1>1. 0 \in 0 .. Pulse + 1 /\ 0 \in 0 .. Hysteresis /\ Raised(base) \in CapPairs
    BY ConstantsAssumption, RaisedType
  <1>2. /\ Started(l, base) \in Limiters
        /\ Started(l, base).base = base /\ Started(l, base).cur = Raised(base)
        /\ Started(l, base).raised = TRUE
    BY <1>1 DEF Started, Limiters
  <1> QED
    BY <1>2, NoneAssumption

(* The streak has its type.                                                  *)
LEMMA StreakType ==
    ASSUME NEW l \in Limiters, NEW idle \in BOOLEAN, NEW held \in BOOLEAN
    PROVE  NextStreak(l, idle, held) \in 0 .. Hysteresis
  BY ConstantsAssumption DEF NextStreak, Limiters

(* What a change of one thread's work leaves in place.                       *)
LEMMA WorkType ==
    ASSUME TypeOK, NEW t \in Threads, NEW w \in Works \cup {None},
           work' = [work EXCEPT ![t] = w]
    PROVE  /\ work' \in [Threads -> Works \cup {None}]
           /\ work'[t] = w
           /\ \A u \in Threads : u # t => work'[u] = work[u]
  BY DEF TypeOK

(* A thread that begins a change has its type.                               *)
LEMMA BeginType ==
    ASSUME TypeOK, NEW t \in Threads, NEW change \in CapPairs, NEW before \in CapPairs,
           Begin(t, change, before)
    PROVE  /\ work' \in [Threads -> Works \cup {None}]
           /\ work'[t] # None
           /\ work'[t].pc = IF t = "act" THEN "follow" ELSE "set"
           /\ work'[t].change = change /\ work'[t].before = before
           /\ \A u \in Threads : u # t => work'[u] = work[u]
  <1> DEFINE w == [pc |-> IF t = "act" THEN "follow" ELSE "set",
                   change |-> change, before |-> before]
  <1>1. w \in Works
    BY DEF Works
  <1>2. work' = [work EXCEPT ![t] = w]
    BY DEF Begin
  <1> QED
    BY <1>1, <1>2, WorkType, NoneAssumption

(* A thread that goes on to the next step of its change has its type.        *)
LEMMA GotoType ==
    ASSUME TypeOK, NEW t \in Threads, NEW change \in CapPairs, NEW before \in CapPairs,
           NEW pc \in {"follow", "set", "send", "forget"},
           Goto(t, pc, change, before)
    PROVE  /\ work' \in [Threads -> Works \cup {None}]
           /\ work'[t] # None
           /\ work'[t].pc = pc
           /\ work'[t].change = change /\ work'[t].before = before
           /\ \A u \in Threads : u # t => work'[u] = work[u]
  <1> DEFINE w == [pc |-> pc, change |-> change, before |-> before]
  <1>1. w \in Works
    BY DEF Works
  <1>2. work' = [work EXCEPT ![t] = w]
    BY DEF Goto
  <1> QED
    BY <1>1, <1>2, WorkType, NoneAssumption

(* So has one that is done with its change.                                  *)
LEMMA DoneType ==
    ASSUME TypeOK, NEW t \in Threads, Done(t)
    PROVE  /\ work' \in [Threads -> Works \cup {None}]
           /\ work'[t] = None
           /\ \A u \in Threads : u # t => work'[u] = work[u]
  BY WorkType DEF Done

(* A thread that is somewhere has a change, and a limiter.                   *)
LEMMA AtType ==
    ASSUME TInv, NEW t \in Threads, NEW pc, At(t, pc)
    PROVE  /\ work[t] \in Works /\ work[t].pc = pc
           /\ work[t].change \in CapPairs /\ work[t].before \in CapPairs
           /\ lim \in Limiters /\ lim # None
  BY DEF TInv, TypeOK, WorkHasLimiter, At, Works

(* The faults are counted within their budget.                               *)
LEMMA FaultType ==
    ASSUME TypeOK, NEW kind, Fault(kind)
    PROVE  faults' \in 0 .. FaultBudget
  BY ConstantsAssumption DEF TypeOK, Fault

(* What is remembered of the caps has its type.                              *)
LEMMA RememberType ==
    ASSUME TypeOK, NEW base \in CapPairs \cup {None}, Remember(base)
    PROVE  /\ record' \in CapPairs \cup {None} /\ disk' \in CapPairs \cup {None}
           /\ faults' \in 0 .. FaultBudget
  BY FaultType DEF TypeOK, Remember

(* A command that lands keeps the type of the caps.                          *)
LEMMA LandType ==
    ASSUME TypeOK, NEW new \in CapPairs, Land(new)
    PROVE  /\ caps' \in CapPairs /\ wanted' \in CapPairs
           /\ raisedFor' \in 0 .. Pulse + 1 /\ sinceLowered' \in 0 .. Cooldown
  BY ConstantsAssumption DEF TypeOK, Land

(* LimitPulse.observe returns a limiter, and begins a change or none.        *)
LEMMA ObserveType ==
    ASSUME TypeOK, NEW l \in Limiters, l # None, ~l.raised => l.cur = l.base,
           NEW idle \in BOOLEAN, NEW full \in BOOLEAN, NEW held \in BOOLEAN,
           Observe(l, idle, full, held)
    PROVE  /\ lim' \in Limiters /\ lim' # None
           /\ ~lim'.raised => lim'.cur = lim'.base
           /\ work' \in [Threads -> Works \cup {None}]
  <1> USE DEF Threads
  <1>1. l.base \in CapPairs /\ l.cur \in CapPairs /\ Raised(l.base) \in CapPairs
    BY RaisedType DEF Limiters
  <1>2. NextStreak(l, idle, held) \in 0 .. Hysteresis
    BY StreakType
  <1>3. work \in [Threads -> Works \cup {None}]
    BY DEF TypeOK
  <1>4. CASE l.raised /\ lim' = Reset(l) /\ Begin("act", l.base, l.cur)
    <2>1. work' \in [Threads -> Works \cup {None}]
      BY <1>1, <1>4, BeginType
    <2> QED
      BY <1>4, <2>1, ResetType
  <1>5. CASE lim' = l /\ UNCHANGED work
    BY <1>3, <1>5
  <1>6. CASE lim' = Started(l, l.base) /\ Begin("act", Raised(l.base), l.cur)
    <2>1. work' \in [Threads -> Works \cup {None}]
      BY <1>1, <1>6, BeginType
    <2> QED
      BY <1>1, <1>6, <2>1, StartedType
  <1>7. CASE ~l.raised /\ lim' = [l EXCEPT !.streak = NextStreak(l, idle, held)]
             /\ UNCHANGED work
    <2>1. /\ lim' \in Limiters
          /\ lim'.raised = l.raised /\ lim'.cur = l.cur /\ lim'.base = l.base
      BY <1>2, <1>7 DEF Limiters
    <2> QED
      BY <1>3, <1>7, <2>1, NoneAssumption
  <1> QED
    BY <1>4, <1>5, <1>6, <1>7 DEF Observe

(* Time changes a limiter's clocks and nothing else of it.                   *)
LEMMA TickLimiter ==
    ASSUME TypeOK, lim # None, Tick
    PROVE  /\ lim' \in Limiters /\ lim' # None
           /\ lim'.raised = lim.raised /\ lim'.cur = lim.cur /\ lim'.base = lim.base
  <1>1. lim \in Limiters
    BY DEF TypeOK
  <1>2. /\ \A n \in 0 .. Pulse + 1 : (IF n > Pulse THEN n ELSE n + 1) \in 0 .. Pulse + 1
        /\ \A n \in 0 .. Cooldown : (IF n = Cooldown THEN n ELSE n + 1) \in 0 .. Cooldown
    BY ConstantsAssumption
  <1>3. lim.since \in 0 .. Pulse + 1 /\ lim.lowered \in 0 .. Cooldown
    BY <1>1 DEF Limiters
  <1>4. lim' = [lim EXCEPT
                  !.since = IF lim.since > Pulse THEN lim.since ELSE lim.since + 1,
                  !.lowered = IF lim.lowered = Cooldown THEN lim.lowered
                              ELSE lim.lowered + 1]
    BY <1>1 DEF Tick, Limiters
  <1>5. /\ lim' \in Limiters
        /\ lim'.raised = lim.raised /\ lim'.cur = lim.cur /\ lim'.base = lim.base
    BY <1>1, <1>2, <1>3, <1>4 DEF Limiters
  <1> QED
    BY <1>5, NoneAssumption

(* The type holds initially.                                                 *)
LEMMA InitTInv == Init => TInv
  <1> SUFFICES ASSUME Init PROVE TInv
    OBVIOUS
  <1> USE ConstantsAssumption DEF Init
  <1>1. /\ raisedFor \in 0 .. Pulse + 1 /\ sinceLowered \in 0 .. Cooldown
        /\ faults \in 0 .. FaultBudget /\ admin \in 0 .. AdminBudget
    OBVIOUS
  <1>2. work \in [Threads -> Works \cup {None}] /\ \A t \in Threads : work[t] = None
    OBVIOUS
  <1> QED
    BY <1>1, <1>2 DEF TInv, TypeOK, WorkHasLimiter

(* Each step keeps the type.                                                 *)
LEMMA NextTInv == TInv /\ [Next]_vars => TInv'
  <1> SUFFICES ASSUME TInv, [Next]_vars PROVE TInv'
    OBVIOUS
  <1> USE DEF TInv
  <1>0. TypeOK
    OBVIOUS
  <1>1. ASSUME ActObserve PROVE TInv'
    <2>1. PICK idle \in BOOLEAN, full \in BOOLEAN, held \in BOOLEAN :
              Observe(Limiter, idle, full, held)
      BY <1>1 DEF ActObserve
    <2>2. /\ lim' \in Limiters /\ lim' # None /\ (~lim'.raised => lim'.cur = lim'.base)
          /\ work' \in [Threads -> Works \cup {None}]
      BY <2>1, LimiterType, ObserveType
    <2> QED
      BY <1>1, <2>2 DEF ActObserve, TypeOK, WorkHasLimiter, history
  <1>2. ASSUME ActNothing PROVE TInv'
    BY <1>2 DEF ActNothing, TypeOK, WorkHasLimiter, history
  <1>3. ASSUME FollowLower PROVE TInv'
    <2> USE DEF Threads
    <2>1. /\ work["act"].change \in CapPairs /\ work["act"].before \in CapPairs
          /\ lim \in Limiters /\ lim # None
      BY <1>3, AtType DEF FollowLower
    <2>2. CASE lim' = [lim EXCEPT !.base = caps, !.cur = caps]
               /\ Remember(None) /\ Done("act")
      <3>1. /\ lim' \in Limiters /\ lim'.base = caps /\ lim'.cur = caps
        BY <2>1, <2>2 DEF TypeOK, Limiters
      <3>2. /\ work' \in [Threads -> Works \cup {None}]
        BY <2>2, DoneType
      <3>3. /\ record' \in CapPairs \cup {None} /\ disk' \in CapPairs \cup {None}
            /\ faults' \in 0 .. FaultBudget
        BY <2>2, RememberType
      <3> QED
        BY <1>3, <3>1, <3>2, <3>3, NoneAssumption
           DEF FollowLower, TypeOK, WorkHasLimiter, history
    <2>3. CASE Goto("act", "set", work["act"].change, work["act"].before)
               /\ UNCHANGED <<lim, record, disk, faults>>
      <3>1. work' \in [Threads -> Works \cup {None}]
        BY <2>1, <2>3, GotoType
      <3> QED
        BY <1>3, <2>1, <2>3, <3>1 DEF FollowLower, TypeOK, WorkHasLimiter, history
    <2> QED
      BY <1>3, <2>2, <2>3 DEF FollowLower, SetBase
  <1>4. ASSUME FollowRaise PROVE TInv'
    <2> USE DEF Threads
    <2>1. /\ lim \in Limiters /\ lim # None /\ caps \in CapPairs
          /\ Raised(caps) \in CapPairs /\ work["act"].change \in CapPairs
      BY <1>4, AtType, RaisedType DEF FollowRaise, TypeOK
    <2>2. work' \in [Threads -> Works \cup {None}]
      BY <1>4, <2>1, GotoType, DoneType DEF FollowRaise
    <2>3. lim' \in Limiters /\ (~lim'.raised => lim'.cur = lim'.base)
      <3>1. CASE UNCHANGED lim
        BY <2>1, <3>1 DEF TypeOK
      <3>2. CASE lim' = [lim EXCEPT !.base = caps, !.cur = Raised(caps)]
        BY <1>4, <2>1, <3>2 DEF Limiters, FollowRaise
      <3>3. CASE lim' = SetBase([lim EXCEPT !.raised = FALSE], caps)
        BY <2>1, <3>3 DEF Limiters, SetBase
      <3> QED
        BY <1>4, <3>1, <3>2, <3>3 DEF FollowRaise
    <2> QED
      BY <1>4, <2>2, <2>3, NoneAssumption DEF FollowRaise, TypeOK, WorkHasLimiter, history
  <1>5. ASSUME NEW t \in Threads, Apply(t) PROVE TInv'
    <2>1. CASE SetBlocked(t)
      <3>1. /\ work' \in [Threads -> Works \cup {None}] /\ lim # None
        BY <2>1, DoneType, AtType DEF SetBlocked
      <3> QED
        BY <2>1, <3>1 DEF SetBlocked, TypeOK, WorkHasLimiter, history
    <2>2. CASE SetCaps(t)
      <3>1. /\ work[t].change \in CapPairs /\ work[t].before \in CapPairs
            /\ lim \in Limiters /\ lim # None
        BY <2>2, AtType DEF SetCaps
      <3>2. work' \in [Threads -> Works \cup {None}]
        BY <2>2, <3>1, GotoType DEF SetCaps
      <3>3. BaseToRecord(lim) \in CapPairs \cup {None}
        BY <3>1 DEF BaseToRecord, Limiters
      <3>4. /\ record' \in CapPairs \cup {None} /\ disk' \in CapPairs \cup {None}
            /\ faults' \in 0 .. FaultBudget
        BY <2>2, <3>3, RememberType DEF SetCaps, TypeOK
      <3> QED
        BY <2>2, <3>1, <3>2, <3>4 DEF SetCaps, TypeOK, WorkHasLimiter, history
    <2>3. CASE Send(t)
      <3>1. /\ work[t].change \in CapPairs /\ work[t].before \in CapPairs
            /\ lim \in Limiters /\ lim # None
        BY <2>3, AtType DEF Send
      <3>2. work' \in [Threads -> Works \cup {None}]
        BY <2>3, <3>1, GotoType, DoneType DEF Send
      <3>3. /\ caps' \in CapPairs /\ wanted' \in CapPairs
            /\ raisedFor' \in 0 .. Pulse + 1 /\ sinceLowered' \in 0 .. Cooldown
        BY <2>3, <3>1, LandType DEF Send
      <3> QED
        BY <2>3, <3>1, <3>2, <3>3 DEF Send, TypeOK, WorkHasLimiter
    <2>4. CASE Forget(t)
      <3>1. /\ work' \in [Threads -> Works \cup {None}] /\ lim # None
        BY <2>4, DoneType, AtType DEF Forget
      <3>2. /\ record' \in CapPairs \cup {None} /\ disk' \in CapPairs \cup {None}
            /\ faults' \in 0 .. FaultBudget
        BY <2>4, RememberType DEF Forget
      <3> QED
        BY <2>4, <3>1, <3>2 DEF Forget, TypeOK, WorkHasLimiter, history
    <2> QED
      BY <1>5, <2>1, <2>2, <2>3, <2>4 DEF Apply
  <1>6. ASSUME MainNext PROVE TInv'
    <2> USE DEF Threads
    <2>1. CASE Start
      BY <2>1 DEF Start, RecordFound, TypeOK, WorkHasLimiter, history
    <2>2. CASE RestoreNothing
      <3>1. lim' \in Limiters \cup {None} /\ (lim # None => lim' # None)
            /\ (lim' # None /\ ~lim'.raised => lim'.cur = lim'.base)
        BY <2>2, LimiterType DEF RestoreNothing, TypeOK
      <3>2. faults' \in 0 .. FaultBudget
        BY <2>2, FaultType DEF RestoreNothing, TypeOK
      <3> QED
        BY <2>2, <3>1, <3>2
           DEF RestoreNothing, Restoring, NextPhase, TypeOK, WorkHasLimiter, history
    <2>3. CASE RestoreForget
      <3>1. /\ lim' \in Limiters /\ lim' # None /\ lim'.cur = lim'.base
        BY <2>3, LimiterType, ResetType DEF RestoreForget
      <3>2. /\ record' \in CapPairs \cup {None} /\ disk' \in CapPairs \cup {None}
            /\ faults' \in 0 .. FaultBudget
        BY <2>3, RememberType DEF RestoreForget
      <3> QED
        BY <2>3, <3>1, <3>2
           DEF RestoreForget, Restoring, NextPhase, TypeOK, WorkHasLimiter, history
    <2>4. CASE RestoreCaps
      <3>1. /\ lim' \in Limiters /\ lim' # None /\ lim'.cur = lim'.base
        BY <2>4, LimiterType, ResetType DEF RestoreCaps
      <3>2. Limiter.base \in CapPairs /\ caps \in CapPairs
        BY LimiterType DEF Limiters, TypeOK
      <3>3. work' \in [Threads -> Works \cup {None}]
        BY <2>4, <3>2, BeginType DEF RestoreCaps
      <3> QED
        BY <2>4, <3>1, <3>3
           DEF RestoreCaps, Restoring, NextPhase, TypeOK, WorkHasLimiter, history
    <2>5. CASE Run
      BY <2>5 DEF Run, TypeOK, WorkHasLimiter, history
    <2>6. CASE Join
      BY <2>6, FaultType DEF Join, TypeOK, WorkHasLimiter, history
    <2>7. CASE Exit
      BY <2>7 DEF Exit, MemoryLost, TypeOK, WorkHasLimiter, history
    <2> QED
      BY <1>6, <2>1, <2>2, <2>3, <2>4, <2>5, <2>6, <2>7 DEF MainNext
  <1>7. ASSUME FaultNext PROVE TInv'
    <2> USE DEF Threads
    <2>1. CASE ActUnknown
      <3>1. Unset \in CapPairs
        BY DEF Unset, CapPairs
      <3>2. /\ lim' \in Limiters /\ lim' # None /\ lim'.cur = lim'.base
        BY <2>1, <3>1, NewLimiterType, NoneAssumption DEF ActUnknown
      <3> QED
        BY <2>1, <3>2, FaultType DEF ActUnknown, TypeOK, WorkHasLimiter, history
    <2>2. CASE ActDrained
      BY <2>2, FaultType DEF ActDrained, TypeOK, WorkHasLimiter, history
    <2>3. CASE FollowBlind
      <3>1. /\ work["act"].change \in CapPairs /\ work["act"].before \in CapPairs
            /\ lim # None
        BY <2>3, AtType DEF FollowBlind
      <3>2. work' \in [Threads -> Works \cup {None}]
        BY <2>3, <3>1, GotoType, DoneType DEF FollowBlind
      <3> QED
        BY <2>3, <3>1, <3>2, FaultType DEF FollowBlind, TypeOK, WorkHasLimiter, history
    <2>4. ASSUME NEW t \in Threads, SendFails(t) PROVE TInv'
      <3>1. work[t].change \in CapPairs /\ lim # None
        BY <2>4, AtType DEF SendFails
      <3>2. work' \in [Threads -> Works \cup {None}]
        BY <2>4, DoneType DEF SendFails
      <3>3. /\ caps' \in CapPairs /\ wanted' \in CapPairs
            /\ raisedFor' \in 0 .. Pulse + 1 /\ sinceLowered' \in 0 .. Cooldown
        BY <2>4, <3>1, LandType DEF SendFails, TypeOK, history
      <3>4. faults' \in 0 .. FaultBudget
        BY <2>4, FaultType DEF SendFails
      <3> QED
        BY <2>4, <3>1, <3>2, <3>3, <3>4 DEF SendFails, TypeOK, WorkHasLimiter
    <2>5. CASE Stop
      BY <2>5, FaultType DEF Stop, TypeOK, WorkHasLimiter, history
    <2>6. CASE Kill
      BY <2>6, FaultType DEF Kill, MemoryLost, TypeOK, WorkHasLimiter, history
    <2>7. CASE Disable
      BY <2>7, FaultType DEF Disable, TypeOK, WorkHasLimiter, history, sjpd
    <2>8. CASE Enable
      BY <2>8 DEF Enable, TypeOK, WorkHasLimiter, history, sjpd
    <2> QED
      BY <1>7, <2>1, <2>2, <2>3, <2>4, <2>5, <2>6, <2>7, <2>8 DEF FaultNext
  <1>8. ASSUME Tick PROVE TInv'
    <2>1. CASE lim = None
      BY <1>8, <2>1, ConstantsAssumption DEF Tick, TypeOK, WorkHasLimiter
    <2>2. CASE lim # None
      <3>2. /\ lim' \in Limiters /\ lim' # None
            /\ lim'.raised = lim.raised /\ lim'.cur = lim.cur /\ lim'.base = lim.base
        BY <1>8, <2>2, TickLimiter
      <3>3. raisedFor' \in 0 .. Pulse + 1 /\ sinceLowered' \in 0 .. Cooldown
        BY <1>8, ConstantsAssumption DEF Tick, TypeOK
      <3> QED
        BY <1>8, <2>2, <3>2, <3>3 DEF Tick, TypeOK, WorkHasLimiter
    <2> QED
      BY <2>1, <2>2
  <1>9. ASSUME NEW new \in AdminCaps, AdminSets(new) PROVE TInv'
    <2>1. sinceLowered' \in 0 .. Cooldown
      BY <1>9, ConstantsAssumption DEF AdminSets, TypeOK
    <2> QED
      BY <1>9, <2>1, ConstantsAssumption DEF AdminSets, TypeOK, WorkHasLimiter, sjpd
  <1>10. CASE UNCHANGED vars
    BY <1>10 DEF vars, sjpd, history, TypeOK, WorkHasLimiter
  <1> QED
    BY <1>1, <1>2, <1>3, <1>4, <1>5, <1>6, <1>7, <1>8, <1>9, <1>10 DEF Next, ActNext

(* All states of sjpd's limits have the types of TypeOK, whatever fails and  *)
(* whatever an admin sets; in particular a limiter at rest is at its base.   *)
THEOREM TypeCorrect == Spec => []TypeOK
  <1>1. Spec => []TInv
    BY InitTInv, NextTInv, PTL DEF Spec
  <1> QED
    BY <1>1, PTL DEF TInv

-----------------------------------------------------------------------------
(* The faults after which the base caps are still to be had: everything but  *)
(* a failing step back to base, a failing restore at startup, a state file   *)
(* that cannot be written and a join that times out; and no admin.           *)
Recoverable ==
    /\ AdminBudget = 0
    /\ Faults \cap {"lower", "startup", "write", "join"} = {}

Base == InitialCaps
Up == Raised(InitialCaps)

(* The caps are the base or up, and up only with the base on disk.           *)
CapsKnown ==
    /\ wanted = Base
    /\ caps \in {Base, Up} /\ disk \in {Base, None}
    /\ caps = Up => disk = Base

(* What is in memory agrees with the disk; what is not running has none.     *)
MemoryAgrees ==
    /\ phase # "down" => record = disk
    /\ phase = "down" => lim = None
    /\ phase = "startup" => lim = None
    /\ work["act"] # None => phase \in {"running", "stopping"}
    /\ work["main"] # None => phase \in {"restored", "saved"}

(* The limiter knows the base, or has never known anything.                  *)
LimiterKnows ==
    lim # None =>
        /\ lim.base = Base \/ (lim.base = Unset /\ record = None)
        /\ lim.raised => lim.base = Base /\ lim.cur = Up

(* A change under way is a raise from base with the limiter raised, or a     *)
(* step back with the limiter at rest; the command of a raise is only sent   *)
(* once the base is on disk, the record only removed with the caps at base.  *)
RaiseUnderWay(w) ==
    /\ w.pc # "forget" /\ w.change = Up /\ w.before = Base
    /\ caps = Base /\ (w.pc = "send" => disk = Base)

ReturnUnderWay(w) ==
    /\ w.change = Base /\ w.before = Up
    /\ w.pc = "forget" => caps = Base

WorkMakesSense ==
    /\ \A t \in Threads : work[t] # None =>
          /\ lim # None /\ lim.base = Base
          /\ IF lim.raised THEN RaiseUnderWay(work[t]) ELSE ReturnUnderWay(work[t])
    /\ work["main"] # None => ~lim.raised /\ work["main"].pc # "follow"

(* Caps that are up have somebody to lower them: the limiter or a change.    *)
UpHasAnEnd ==
    /\ phase \in {"running", "stopping"} /\ work["act"] = None /\ caps = Up =>
          lim # None /\ lim.raised
    /\ phase = "restored" /\ work["main"] = None => caps = Base

SInv == CapsKnown /\ MemoryAgrees /\ LimiterKnows /\ WorkMakesSense /\ UpHasAnEnd

(* The base and the raised caps are known and differ; the raised ones are    *)
(* larger.                                                                   *)
LEMMA CapsFacts ==
    /\ Base \in CapPairs /\ Up \in CapPairs /\ Base # Up
    /\ Known(Base) /\ Known(Up) /\ ~Known(Unset) /\ Base # Unset /\ Raised(Base) = Up
    /\ Base # None /\ Up # None
    /\ Base[1] # 0 /\ Base[1] <= Up[1] /\ Base[2] <= Up[2] /\ ~ (Up[1] <= Base[1])
  <1>1. /\ InitialCaps \in CapPairs /\ InitialCaps[1] \in Nat /\ InitialCaps[2] \in Nat
        /\ InitialCaps[1] > 0 /\ InitialCaps[2] > 0 /\ Ceiling \in Nat /\ Ceiling > 1
    BY ConstantsAssumption DEF CapPairs
  <1>2. \A m, k \in Nat : m > 0 /\ k > 1 => m * k \in Nat /\ m * k > m
    OBVIOUS
  <1>3. /\ InitialCaps[1] * Ceiling \in Nat /\ InitialCaps[1] * Ceiling > InitialCaps[1]
        /\ InitialCaps[2] * Ceiling \in Nat /\ InitialCaps[2] * Ceiling > InitialCaps[2]
    BY <1>1, <1>2
  <1>4. /\ Up \in CapPairs
        /\ Up[1] = InitialCaps[1] * Ceiling /\ Up[2] = InitialCaps[2] * Ceiling
    BY <1>3 DEF Up, Raised, CapPairs
  <1>5. Base # None /\ Up # None
    BY <1>1, <1>4, NoneAssumption DEF Base
  <1> QED
    BY <1>1, <1>3, <1>4, <1>5 DEF Base, Up, Known, Unset

(* Returning to the base lowers the caps.                                    *)
LEMMA ReturnLowers ==
    ASSUME NEW t \in Threads, work[t].change = Base, work[t].before = Up
    PROVE  Lowering(t)
  <1>1. \A i \in 1 .. 2 : i = 1 \/ i = 2
    OBVIOUS
  <1> QED
    BY <1>1, CapsFacts DEF Lowering

(* Raising does not.                                                         *)
LEMMA RaiseRaises ==
    ASSUME NEW t \in Threads, work[t].change = Up, work[t].before = Base
    PROVE  ~Lowering(t)
  BY CapsFacts, 1 \in 1 .. 2 DEF Lowering

(* What fails, and what does not, under Recoverable.                         *)
LEMMA NoFault ==
    ASSUME Recoverable, NEW kind \in {"lower", "startup", "write", "join"}
    PROVE  ~Fault(kind)
  BY DEF Recoverable, Fault

(* The record is written when it is to be.                                   *)
LEMMA Remembered ==
    ASSUME Recoverable, NEW base, Remember(base)
    PROVE  record' = base /\ disk' = base
  BY NoFault DEF Remember

(* The base a limiter gets when there is none.                               *)
LEMMA LimiterFacts ==
    ASSUME TInv, SInv, phase # "down", record # None \/ lim # None \/ caps = Base
    PROVE  /\ Limiter.base = Base \/ (Limiter.base = Unset /\ record = None)
           /\ Limiter.raised => lim # None /\ lim.raised /\ Limiter.base = Base /\ Limiter.cur = Up
           /\ ~Limiter.raised => Limiter.cur = Limiter.base
           /\ Limiter \in Limiters /\ Limiter # None
           /\ lim # None => Limiter = lim
  <1>1. Limiter \in Limiters /\ Limiter # None /\ (~Limiter.raised => Limiter.cur = Limiter.base)
    BY LimiterType DEF TInv
  <1>2. CASE lim # None
    BY <1>1, <1>2 DEF Limiter, SInv, LimiterKnows
  <1>3. CASE lim = None
    <2>1. Limiter = NewLimiter(Base)
      BY <1>3, CapsFacts DEF Limiter, SInv, CapsKnown, MemoryAgrees
    <2> QED
      BY <1>1, <1>3, <2>1, CapsFacts, NewLimiterType
  <1> QED
    BY <1>2, <1>3

(* The state a thread at work is in, spelled out for each kind of change.    *)
LEMMA ActAtWork ==
    ASSUME TInv, SInv, work["act"] # None
    PROVE  /\ phase \in {"running", "stopping"} /\ work["main"] = None /\ record = disk
           /\ lim \in Limiters /\ lim # None /\ lim.base = Base
           /\ lim.raised => RaiseUnderWay(work["act"]) /\ lim.cur = Up
           /\ ~lim.raised => ReturnUnderWay(work["act"]) /\ lim.cur = Base
  BY DEF TInv, TypeOK, SInv, MemoryAgrees, LimiterKnows, WorkMakesSense, Threads

(* When the main thread is in the middle of a change, it is returning the    *)
(* caps at startup or at shutdown, alone.                                    *)
LEMMA MainAtWork ==
    ASSUME TInv, SInv, work["main"] # None
    PROVE  /\ phase \in {"restored", "saved"} /\ work["act"] = None /\ record = disk
           /\ lim \in Limiters /\ lim # None /\ lim.base = Base /\ ~lim.raised
           /\ ReturnUnderWay(work["main"]) /\ work["main"].pc # "follow"
  BY DEF TInv, TypeOK, SInv, MemoryAgrees, LimiterKnows, WorkMakesSense, Threads

(* act: a pulse begins, ends or goes on.                                     *)
LEMMA ObserveSInv ==
    ASSUME Recoverable, TInv, SInv, ActObserve
    PROVE  SInv'
  <1> USE DEF Threads
  <1> DEFINE l == Limiter
  <1>1. /\ phase = "running" /\ work["act"] = None /\ work["main"] = None
        /\ UNCHANGED <<caps, disk, phase, record, wanted>>
        /\ caps = Up => lim # None /\ lim.raised
        /\ caps \in {Base, Up} /\ TypeOK
    BY DEF ActObserve, ActDue, history, SInv, CapsKnown, MemoryAgrees, UpHasAnEnd, TInv
  <1>2. /\ l.base = Base \/ (l.base = Unset /\ record = None)
        /\ l.raised => lim # None /\ lim.raised /\ l.base = Base /\ l.cur = Up
        /\ ~l.raised => l.cur = l.base
        /\ l \in Limiters /\ l # None
        /\ lim # None => l = lim
    BY <1>1, LimiterFacts
  <1>3. ~l.raised => caps = Base
    BY <1>1, <1>2
  <1>4. l.base \in CapPairs /\ l.cur \in CapPairs
    BY <1>2 DEF Limiters
  <1>5. CASE l.raised /\ lim' = Reset(l) /\ Begin("act", l.base, l.cur)
    <2>1. /\ lim' # None /\ lim'.base = Base /\ lim'.raised = FALSE
      BY <1>2, <1>5, ResetType
    <2>2. /\ work'["act"] # None /\ work'["act"].change = Base /\ work'["act"].before = Up
          /\ work'["act"].pc = "follow" /\ work'["main"] = None
      BY <1>1, <1>2, <1>4, <1>5, BeginType
    <2> QED
      BY <1>1, <2>1, <2>2 DEF SInv, CapsKnown, MemoryAgrees, LimiterKnows,
         WorkMakesSense, UpHasAnEnd, ReturnUnderWay
  <1>6. CASE UNCHANGED work /\ lim'.base = l.base /\ lim'.cur = l.cur
             /\ lim'.raised = l.raised /\ lim' # None
    BY <1>1, <1>2, <1>3, <1>6 DEF SInv, CapsKnown, MemoryAgrees, LimiterKnows,
       WorkMakesSense, UpHasAnEnd
  <1>7. CASE /\ Known(l.base) /\ ~l.raised
             /\ lim' = Started(l, l.base) /\ Begin("act", Raised(l.base), l.cur)
    <2>1. l.base = Base /\ l.cur = Base /\ Raised(l.base) = Up
      BY <1>2, <1>7, CapsFacts DEF Known, Unset
    <2>2. /\ lim' # None /\ lim'.base = Base /\ lim'.raised = TRUE /\ lim'.cur = Up
      BY <1>2, <1>4, <1>7, <2>1, StartedType
    <2>3. /\ work'["act"] # None /\ work'["act"].change = Up /\ work'["act"].before = Base
          /\ work'["act"].pc = "follow" /\ work'["main"] = None
      BY <1>1, <1>4, <1>7, <2>1, CapsFacts, BeginType
    <2> QED
      BY <1>1, <1>3, <1>7, <2>2, <2>3, CapsFacts DEF SInv, CapsKnown, MemoryAgrees,
         LimiterKnows, WorkMakesSense, UpHasAnEnd, RaiseUnderWay
  <1>8. CASE \E idle, held \in BOOLEAN :
                lim' = [l EXCEPT !.streak = NextStreak(l, idle, held)] /\ UNCHANGED work
    <2>1. /\ lim'.base = l.base /\ lim'.cur = l.cur /\ lim'.raised = l.raised
      BY <1>2, <1>8 DEF Limiters
    <2>2. lim' # None
      BY NextTInv, <1>2, <1>8, StreakType, NoneAssumption DEF Limiters
    <2> QED
      BY <1>6, <1>8, <2>1, <2>2
  <1>9. CASE lim' = l /\ UNCHANGED work
    BY <1>2, <1>6, <1>9
  <1> QED
    BY <1>5, <1>7, <1>8, <1>9 DEF ActObserve, Observe

(* act: follow_admin, which finds no change by hand.                         *)
LEMMA FollowStep ==
    ASSUME TInv, SInv, FollowLower \/ FollowRaise \/ FollowBlind
    PROVE  /\ work["act"] # None /\ work["act"].pc = "follow"
           /\ UNCHANGED <<caps, disk, phase, record, lim, due, wanted, raisedFor>>
           /\ \/ Goto("act", "set", work["act"].change, work["act"].before)
              \/ lim.raised /\ Done("act")
  <1>1. work["act"] # None /\ work["act"].pc = "follow"
    BY DEF FollowLower, FollowRaise, FollowBlind, At
  <1>2. /\ lim.base = Base /\ caps \in {Base, Up}
        /\ lim.raised => RaiseUnderWay(work["act"])
        /\ ~lim.raised => ReturnUnderWay(work["act"])
    BY <1>1, ActAtWork DEF SInv, CapsKnown
  <1>3. CASE FollowLower
    BY <1>1, <1>2, <1>3 DEF FollowLower, ByHand, ReturnUnderWay, history
  <1>4. CASE FollowRaise
    BY <1>1, <1>2, <1>4, CapsFacts DEF FollowRaise, RaiseUnderWay, history
  <1>5. CASE FollowBlind
    BY <1>1, <1>5 DEF FollowBlind, history
  <1> QED
    BY <1>1, <1>3, <1>4, <1>5

(* A change that act has decided on keeps the invariant.                     *)
LEMMA FollowSInv ==
    ASSUME Recoverable, TInv, SInv, FollowLower \/ FollowRaise \/ FollowBlind
    PROVE  SInv'
  <1> USE DEF Threads
  <1>1. /\ work["act"] # None /\ work["act"].pc = "follow"
        /\ UNCHANGED <<caps, disk, phase, record, lim, wanted>>
        /\ \/ Goto("act", "set", work["act"].change, work["act"].before)
           \/ lim.raised /\ Done("act")
    BY FollowStep
  <1>2. /\ phase \in {"running", "stopping"} /\ work["main"] = None /\ record = disk
        /\ lim # None /\ lim.base = Base /\ TypeOK
        /\ work["act"].change \in CapPairs /\ work["act"].before \in CapPairs
        /\ lim.raised => RaiseUnderWay(work["act"]) /\ lim.cur = Up
        /\ ~lim.raised => ReturnUnderWay(work["act"])
    BY <1>1, ActAtWork, AtType DEF At, TInv
  <1>3. CASE Goto("act", "set", work["act"].change, work["act"].before)
    <2>1. /\ work'["act"] # None /\ work'["act"].pc = "set" /\ work'["main"] = None
          /\ work'["act"].change = work["act"].change
          /\ work'["act"].before = work["act"].before
      BY <1>2, <1>3, GotoType
    <2> QED
      BY <1>1, <1>2, <2>1 DEF SInv, CapsKnown, MemoryAgrees, LimiterKnows,
         WorkMakesSense, UpHasAnEnd, RaiseUnderWay, ReturnUnderWay
  <1>4. CASE lim.raised /\ Done("act")
    <2>1. work'["act"] = None /\ work'["main"] = None
      BY <1>2, <1>4, DoneType
    <2> QED
      BY <1>1, <1>2, <1>4, <2>1 DEF SInv, CapsKnown, MemoryAgrees, LimiterKnows,
         WorkMakesSense, UpHasAnEnd
  <1> QED
    BY <1>1, <1>3, <1>4

(* Of a thread at work: the other one is idle, and its change is one of two. *)
LEMMA AtWork ==
    ASSUME TInv, SInv, NEW t \in Threads, work[t] # None
    PROVE  /\ \A u \in Threads : u # t => work[u] = None
           /\ record = disk /\ phase \notin {"down", "startup"}
           /\ lim \in Limiters /\ lim # None /\ lim.base = Base
           /\ t = "act" => phase \in {"running", "stopping"}
           /\ t = "main" => phase \in {"restored", "saved"} /\ ~lim.raised
           /\ \/ lim.raised /\ RaiseUnderWay(work[t]) /\ ~Lowering(t) /\ t = "act"
              \/ ~lim.raised /\ ReturnUnderWay(work[t]) /\ Lowering(t)
  <1>1. /\ lim.raised => RaiseUnderWay(work[t]) /\ t = "act"
        /\ ~lim.raised => ReturnUnderWay(work[t])
    BY ActAtWork, MainAtWork DEF Threads
  <1>2. /\ RaiseUnderWay(work[t]) => ~Lowering(t)
        /\ ReturnUnderWay(work[t]) => Lowering(t)
    BY ReturnLowers, RaiseRaises DEF RaiseUnderWay, ReturnUnderWay
  <1>3. /\ \A u \in Threads : u # t => work[u] = None
        /\ record = disk /\ phase \notin {"down", "startup"}
        /\ lim \in Limiters /\ lim # None /\ lim.base = Base
        /\ t = "act" => phase \in {"running", "stopping"}
        /\ t = "main" => phase \in {"restored", "saved"} /\ ~lim.raised
    BY ActAtWork, MainAtWork DEF Threads
  <1> QED
    BY <1>1, <1>2, <1>3

(* set_caps, slurm.apply and the end of a change, in either thread.          *)
LEMMA ApplySInv ==
    ASSUME Recoverable, TInv, SInv, NEW t \in Threads, Apply(t) \/ SendFails(t)
    PROVE  SInv'
  <1>1. work[t] # None
    BY DEF Apply, SetBlocked, SetCaps, Send, Forget, SendFails, At
  <1>2. /\ \A u \in Threads : u # t => work[u] = None
        /\ record = disk /\ phase \notin {"down", "startup"}
        /\ lim \in Limiters /\ lim # None /\ lim.base = Base
        /\ t = "act" => phase \in {"running", "stopping"}
        /\ t = "main" => phase \in {"restored", "saved"} /\ ~lim.raised
        /\ \/ lim.raised /\ RaiseUnderWay(work[t]) /\ ~Lowering(t) /\ t = "act"
           \/ ~lim.raised /\ ReturnUnderWay(work[t]) /\ Lowering(t)
    BY <1>1, AtWork
  <1>3. TypeOK /\ work[t].change \in CapPairs /\ work[t].before \in CapPairs
    BY <1>1 DEF TInv, TypeOK, Works
  <1>4. UNCHANGED <<phase, lim, wanted>>
    BY DEF Apply, SetBlocked, SetCaps, Send, Forget, SendFails, history, Land
  <1>5. lim.raised => lim.cur = Up
    BY <1>2 DEF SInv, LimiterKnows
  <1> USE DEF Threads
  (* A change that is over, with the caps and the record as they should be. *)
  <1>6. ASSUME Done(t), caps' \in {Base, Up}, caps' = Up => disk' = Base /\ lim.raised,
               disk' \in {Base, None}, record' = disk'
        PROVE  SInv'
    <2>1. work'["act"] = None /\ work'["main"] = None
      BY <1>2, <1>3, <1>6, DoneType
    <2> QED
      BY <1>2, <1>4, <1>5, <1>6, <2>1, CapsFacts DEF SInv, CapsKnown, MemoryAgrees,
         LimiterKnows, WorkMakesSense, UpHasAnEnd
  (* One that goes on.                                                       *)
  <1>7. ASSUME NEW pc \in {"send", "forget"},
               Goto(t, pc, work[t].change, work[t].before),
               caps' \in {Base, Up}, caps' = Up => disk' = Base,
               disk' \in {Base, None}, record' = disk',
               lim.raised => pc = "send" /\ caps' = Base /\ disk' = Base,
               pc = "forget" => caps' = Base
        PROVE  SInv'
    <2>1. /\ work'[t] # None /\ work'[t].pc = pc
          /\ work'[t].change = work[t].change /\ work'[t].before = work[t].before
          /\ \A u \in Threads : u # t => work'[u] = None
      BY <1>2, <1>3, <1>7, GotoType
    <2>2. (IF lim.raised THEN RaiseUnderWay(work[t]) ELSE ReturnUnderWay(work[t]))'
      BY <1>2, <1>4, <1>7, <2>1 DEF RaiseUnderWay, ReturnUnderWay
    <2>3. CapsKnown' /\ LimiterKnows'
      BY <1>2, <1>4, <1>5, <1>7 DEF SInv, CapsKnown, LimiterKnows
    <2>4. MemoryAgrees' /\ UpHasAnEnd'
      BY <1>2, <1>4, <1>7, <2>1 DEF SInv, MemoryAgrees, UpHasAnEnd
    <2>5. WorkMakesSense'
      <3>1. (work["main"] # None => ~lim.raised /\ work["main"].pc # "follow")'
        BY <1>2, <1>4, <1>7, <2>1
      <3>2. ASSUME NEW u \in Threads, work'[u] # None PROVE u = t
        BY <2>1, <3>2
      <3>3. lim' # None /\ lim'.base = Base
        BY <1>2, <1>4
      <3> QED
        BY <2>2, <3>1, <3>2, <3>3 DEF WorkMakesSense
    <2> QED
      BY <2>3, <2>4, <2>5 DEF SInv
  <1>8. /\ caps \in {Base, Up} /\ disk \in {Base, None} /\ (caps = Up => disk = Base)
    BY DEF SInv, CapsKnown
  <1>9. CASE SetBlocked(t)
    <2>1. lim.raised /\ caps = Base /\ Done(t) /\ UNCHANGED <<caps, disk, record>>
      BY <1>2, <1>9 DEF SetBlocked, Blocked, RaiseUnderWay
    <2> QED
      BY <1>2, <1>6, <1>8, <2>1, CapsFacts
  <1>10. CASE SetCaps(t)
    <2>1. /\ Goto(t, "send", work[t].change, work[t].before) /\ UNCHANGED caps
          /\ Lowering(t) => UNCHANGED <<record, disk>>
          /\ ~Lowering(t) => record' = Base /\ disk' = Base
      BY <1>2, <1>10, Remembered DEF SetCaps, BaseToRecord
    <2> QED
      BY <1>2, <1>7, <1>8, <2>1 DEF RaiseUnderWay
  <1>11. CASE Send(t)
    <2>1. /\ caps' = work[t].change /\ UNCHANGED <<disk, record>> /\ work[t].pc = "send"
          /\ IF Lowering(t) THEN Goto(t, "forget", work[t].change, work[t].before)
                            ELSE Done(t)
      BY <1>11 DEF Send, Land, At
    <2> QED
      BY <1>2, <1>6, <1>7, <1>8, <2>1, CapsFacts DEF RaiseUnderWay, ReturnUnderWay
  <1>12. CASE Forget(t)
    <2>1. work[t].pc = "forget" /\ Done(t) /\ UNCHANGED caps /\ record' = None /\ disk' = None
      BY <1>12, Remembered DEF Forget, At
    <2> QED
      BY <1>2, <1>6, <2>1, CapsFacts DEF RaiseUnderWay, ReturnUnderWay
  <1>13. CASE SendFails(t)
    <2>1. /\ caps' \in {caps, work[t].change} /\ UNCHANGED <<disk, record>> /\ Done(t)
          /\ work[t].pc = "send"
      BY <1>13 DEF SendFails, Land, At, history
    <2>2. CASE lim.raised
      BY <1>2, <1>6, <1>8, <2>1, <2>2, CapsFacts DEF RaiseUnderWay
    <2>3. CASE ~lim.raised
      <3>1. t = "main" /\ phase = "saved"
        BY <1>2, <1>13, <2>3, NoFault DEF SendFails
      <3>2. work'["act"] = None /\ work'["main"] = None
        BY <1>2, <1>3, <2>1, DoneType
      <3>3. caps' \in {Base, Up} /\ (caps' = Up => disk' = Base)
        BY <1>2, <1>8, <2>1, <2>3, CapsFacts DEF ReturnUnderWay
      <3> QED
        BY <1>2, <1>4, <1>5, <1>8, <2>1, <3>1, <3>2, <3>3 DEF SInv, CapsKnown,
           MemoryAgrees, LimiterKnows, WorkMakesSense, UpHasAnEnd
    <2> QED
      BY <2>2, <2>3
  <1> QED
    BY <1>9, <1>10, <1>11, <1>12, <1>13 DEF Apply

(* The main thread: startup, the threads' start, shutdown.                   *)
LEMMA MainSInv ==
    ASSUME Recoverable, TInv, SInv, MainNext
    PROVE  SInv'
  <1> USE DEF Threads
  <1>1. CASE Start
    BY <1>1, CapsFacts DEF Start, RecordFound, history, SInv, CapsKnown, MemoryAgrees,
       LimiterKnows, WorkMakesSense, UpHasAnEnd
  <1>2. ASSUME Restoring, phase' = NextPhase
        PROVE  /\ phase \in {"startup", "shutdown"}
               /\ phase' = IF phase = "startup" THEN "restored" ELSE "saved"
               /\ work["act"] = None /\ work["main"] = None /\ record = disk
               /\ phase = "startup" => lim = None
               /\ caps \in {Base, Up} /\ disk \in {Base, None} /\ (caps = Up => disk = Base)
    BY <1>2 DEF Restoring, NextPhase, SInv, CapsKnown, MemoryAgrees
  <1>3. ASSUME ToRestore, Restoring, phase' = NextPhase
        PROVE  /\ Limiter.base = Base \/ (Limiter.base = Unset /\ record = None)
               /\ Limiter.raised => Limiter.base = Base /\ Limiter.cur = Up
               /\ Limiter \in Limiters /\ Limiter # None
               /\ phase = "startup" => Limiter.base = Base /\ ~Limiter.raised
               /\ Known(Limiter.base) => Limiter.base = Base
    <2>1. record # None \/ lim # None
      BY <1>3 DEF ToRestore
    <2> QED
      BY <1>2, <1>3, <2>1, LimiterFacts, CapsFacts
  <1>4. CASE RestoreNothing
    <2>1. Restoring /\ phase' = NextPhase
          /\ UNCHANGED <<caps, disk, record, work, wanted>>
      BY <1>4 DEF RestoreNothing, history
    <2>2. CASE ~ToRestore /\ UNCHANGED lim
      BY <1>2, <2>1, <2>2, CapsFacts DEF ToRestore, SInv, CapsKnown, MemoryAgrees,
         LimiterKnows, WorkMakesSense, UpHasAnEnd
    <2>3. CASE ToRestore /\ lim' = Limiter /\ phase = "shutdown"
      BY <1>2, <1>3, <2>1, <2>3 DEF SInv, CapsKnown, MemoryAgrees,
         LimiterKnows, WorkMakesSense, UpHasAnEnd
    <2>4. ASSUME ToRestore, ~Known(Limiter.base) \/ Fault(phase)
          PROVE  phase = "shutdown"
      BY <1>2, <1>3, <2>1, <2>4, NoFault, CapsFacts
    <2> QED
      BY <1>4, <2>2, <2>3, <2>4 DEF RestoreNothing
  <1>5. CASE RestoreForget
    <2>1. /\ Restoring /\ phase' = NextPhase /\ ToRestore /\ Known(Limiter.base)
          /\ caps = Limiter.base /\ lim' = Reset(Limiter) /\ Remember(None)
          /\ UNCHANGED <<caps, work, wanted>>
      BY <1>5 DEF RestoreForget, history
    <2>2. Limiter.base = Base /\ lim' # None /\ lim'.base = Base /\ lim'.raised = FALSE
      <3>1. Limiter.base = Base /\ Limiter \in Limiters
        BY <1>3, <2>1
      <3> QED
        BY <2>1, <3>1, ResetType
    <2>3. record' = None /\ disk' = None
      BY <2>1, Remembered
    <2> QED
      BY <1>2, <2>1, <2>2, <2>3, CapsFacts DEF SInv, CapsKnown, MemoryAgrees,
         LimiterKnows, WorkMakesSense, UpHasAnEnd
  <1>6. CASE RestoreCaps
    <2>1. /\ Restoring /\ phase' = NextPhase /\ ToRestore /\ Known(Limiter.base)
          /\ caps # Limiter.base /\ lim' = Reset(Limiter)
          /\ Begin("main", Limiter.base, caps)
          /\ UNCHANGED <<caps, disk, record, wanted>>
      BY <1>6 DEF RestoreCaps, history
    <2>2. Limiter.base = Base /\ lim' # None /\ lim'.base = Base /\ lim'.raised = FALSE
      <3>1. Limiter.base = Base /\ Limiter \in Limiters
        BY <1>3, <2>1
      <3> QED
        BY <2>1, <3>1, ResetType
    <2>3. caps = Up /\ TypeOK
      BY <1>2, <2>1, <2>2 DEF TInv
    <2>4. /\ work'["main"] # None /\ work'["main"].change = Base /\ work'["main"].before = Up
          /\ work'["main"].pc = "set" /\ work'["act"] = None
      BY <1>2, <2>1, <2>2, <2>3, CapsFacts, BeginType
    <2> QED
      BY <1>2, <2>1, <2>2, <2>3, <2>4 DEF SInv, CapsKnown, MemoryAgrees,
         LimiterKnows, WorkMakesSense, UpHasAnEnd, ReturnUnderWay
  <1>7. CASE Run
    BY <1>7, CapsFacts DEF Run, history, SInv, CapsKnown, MemoryAgrees, LimiterKnows,
       WorkMakesSense, UpHasAnEnd
  <1>8. CASE Join
    <2>1. work["act"] = None /\ phase = "stopping" /\ phase' = "shutdown"
          /\ UNCHANGED <<caps, disk, record, lim, work, wanted>>
      BY <1>8, NoFault DEF Join, history
    <2> QED
      BY <2>1 DEF SInv, CapsKnown, MemoryAgrees, LimiterKnows, WorkMakesSense, UpHasAnEnd
  <1>9. CASE Exit
    BY <1>9 DEF Exit, MemoryLost, history, SInv, CapsKnown, MemoryAgrees, LimiterKnows,
       WorkMakesSense, UpHasAnEnd
  <1> QED
    BY <1>1, <1>4, <1>5, <1>6, <1>7, <1>8, <1>9 DEF MainNext

(* Each step keeps the invariant.                                            *)
LEMMA NextSInv == ASSUME Recoverable, TInv, SInv, [Next]_vars PROVE SInv'
  <1> USE DEF Threads
  <1>1. CASE ActObserve
    BY <1>1, ObserveSInv
  <1>2. CASE FollowLower \/ FollowRaise \/ FollowBlind
    BY <1>2, FollowSInv
  <1>3. ASSUME NEW t \in Threads, Apply(t) \/ SendFails(t) PROVE SInv'
    BY <1>3, ApplySInv
  <1>4. CASE MainNext
    BY <1>4, MainSInv
  (* Steps that touch neither the caps nor what is known of them.           *)
  <1>5. ASSUME UNCHANGED <<caps, disk, record, lim, work, wanted>>,
               phase' = phase \/ (phase = "running" /\ phase' = "stopping")
        PROVE  SInv'
    BY <1>5 DEF SInv, CapsKnown, MemoryAgrees, LimiterKnows, WorkMakesSense,
       UpHasAnEnd, RaiseUnderWay, ReturnUnderWay
  <1>6. CASE ActNothing \/ ActDrained \/ Stop \/ Disable \/ Enable \/ UNCHANGED vars
    BY <1>5, <1>6 DEF ActNothing, ActDrained, Stop, Disable, Enable, vars, sjpd, history
  <1>7. CASE ActUnknown
    <2>1. /\ phase = "running" /\ work["act"] = None /\ lim = None /\ record = None
          /\ lim' = NewLimiter(Unset)
          /\ UNCHANGED <<caps, disk, phase, record, work, wanted>>
      BY <1>7 DEF ActUnknown, ActDue, history
    <2>2. /\ Unset \in CapPairs
      BY DEF Unset, CapPairs
    <2>3. lim' # None /\ lim'.base = Unset /\ lim'.raised = FALSE
      BY <2>1, <2>2, NewLimiterType, NoneAssumption
    <2> QED
      BY <2>1, <2>3 DEF SInv, CapsKnown, MemoryAgrees, LimiterKnows, WorkMakesSense,
         UpHasAnEnd
  <1>8. CASE Kill
    BY <1>8 DEF Kill, MemoryLost, history, SInv, CapsKnown, MemoryAgrees, LimiterKnows,
       WorkMakesSense, UpHasAnEnd
  <1>9. CASE Tick
    <2>1. UNCHANGED <<caps, disk, phase, record, work, wanted>>
      BY <1>9 DEF Tick
    <2>2. CASE lim = None
      BY <1>5, <1>9, <2>1, <2>2 DEF Tick
    <2>3. CASE lim # None
      <3>1. lim'.base = lim.base /\ lim'.cur = lim.cur /\ lim'.raised = lim.raised
            /\ lim' # None
        BY <1>9, <2>3, TickLimiter DEF TInv
      <3> QED
        BY <2>1, <2>3, <3>1 DEF SInv, CapsKnown, MemoryAgrees, LimiterKnows,
           WorkMakesSense, UpHasAnEnd, RaiseUnderWay, ReturnUnderWay
    <2> QED
      BY <2>2, <2>3
  <1>10. ASSUME NEW new \in AdminCaps, AdminSets(new) PROVE FALSE
    BY <1>10 DEF AdminSets, Recoverable, TInv, TypeOK
  <1> QED
    BY <1>1, <1>2, <1>3, <1>4, <1>6, <1>7, <1>8, <1>9, <1>10
       DEF Next, ActNext, FaultNext

(* The invariant holds initially.                                            *)
LEMMA InitSInv == Init => SInv
  BY CapsFacts DEF Init, SInv, CapsKnown, MemoryAgrees, LimiterKnows, WorkMakesSense,
     UpHasAnEnd, Base, Threads

-----------------------------------------------------------------------------
(* Each step of CapPulse is a step of CapPromise, or none.                   *)
LEMMA ApplyKeepsPromise ==
    ASSUME Recoverable, TInv, SInv, NEW t \in Threads, Apply(t) \/ SendFails(t)
    PROVE  [Promise!Next]_(Promise!vars)
  <1> USE DEF Promise!Next, Promise!Note, Promise!Raise, Promise!Restore, Promise!vars,
              Base, Up
  <1>1. work[t] # None
    BY DEF Apply, SetBlocked, SetCaps, Send, Forget, SendFails, At
  <1>2. /\ lim.base = Base
        /\ \/ lim.raised /\ RaiseUnderWay(work[t]) /\ ~Lowering(t)
           \/ ~lim.raised /\ ReturnUnderWay(work[t]) /\ Lowering(t)
        /\ caps \in {Base, Up}
    BY <1>1, AtWork DEF SInv, CapsKnown
  <1>3. CASE SetBlocked(t)
    BY <1>3 DEF SetBlocked
  <1>4. CASE SetCaps(t)
    BY <1>2, <1>4, Remembered DEF SetCaps, BaseToRecord, RaiseUnderWay
  <1>5. CASE Send(t)
    BY <1>2, <1>5 DEF Send, Land, At, RaiseUnderWay, ReturnUnderWay
  <1>6. CASE Forget(t)
    BY <1>2, <1>6, Remembered DEF Forget, At, RaiseUnderWay, ReturnUnderWay
  <1>7. CASE SendFails(t)
    BY <1>2, <1>7 DEF SendFails, Land, At, history, RaiseUnderWay, ReturnUnderWay
  <1> QED
    BY <1>3, <1>4, <1>5, <1>6, <1>7 DEF Apply

(* Each step keeps the promise.                                              *)
LEMMA NextKeepsPromise ==
    ASSUME Recoverable, TInv, SInv, [Next]_vars
    PROVE  [Promise!Next]_(Promise!vars)
  <1> USE DEF Promise!vars
  <1>1. ASSUME NEW t \in Threads, Apply(t) \/ SendFails(t)
        PROVE  [Promise!Next]_(Promise!vars)
    BY <1>1, ApplyKeepsPromise
  <1>2. CASE FollowLower
    BY <1>2, FollowStep
  <1>3. CASE RestoreForget
    <2>1. /\ Restoring /\ ToRestore /\ Known(Limiter.base) /\ caps = Limiter.base
          /\ Remember(None) /\ UNCHANGED caps
      BY <1>3 DEF RestoreForget
    <2>2. Limiter.base = Base
      <3>1. record # None \/ lim # None
        BY <2>1 DEF ToRestore
      <3>2. phase # "down"
        BY <2>1 DEF Restoring
      <3> QED
        BY <2>1, <3>1, <3>2, LimiterFacts, CapsFacts
    <2> QED
      BY <2>1, <2>2, Remembered DEF Promise!Next, Promise!Note, Base
  <1>4. CASE \/ ActObserve \/ ActNothing \/ FollowRaise \/ ActUnknown \/ ActDrained
             \/ FollowBlind \/ Stop \/ Kill \/ Disable \/ Enable \/ Tick
             \/ Start \/ RestoreNothing \/ RestoreCaps \/ Run \/ Join \/ Exit
             \/ UNCHANGED vars
    <2>1. UNCHANGED <<caps, disk>>
      BY <1>4 DEF ActObserve, ActNothing, FollowRaise, ActUnknown, ActDrained, FollowBlind,
         Stop, Kill, Disable, Enable, Tick, Start, RestoreNothing, RestoreCaps, Run, Join,
         Exit, vars
    <2> QED
      BY <2>1
  <1>5. ASSUME NEW new \in AdminCaps, AdminSets(new) PROVE FALSE
    BY <1>5 DEF AdminSets, Recoverable, TInv, TypeOK
  <1> QED
    BY <1>1, <1>2, <1>3, <1>4, <1>5 DEF Next, ActNext, MainNext, FaultNext

-----------------------------------------------------------------------------
(* The invariant holds throughout.                                           *)
LEMMA Invariant == ASSUME Recoverable PROVE Spec => [](TInv /\ SInv)
  <1>1. Init => TInv /\ SInv
    BY InitTInv, InitSInv
  <1>2. TInv /\ SInv /\ [Next]_vars => (TInv /\ SInv)'
    BY NextTInv, NextSInv
  <1> QED
    BY <1>1, <1>2, PTL DEF Spec

(* limits.py: the caps are the base or one raise of it, never a raise of a   *)
(* raise, through crashes, timeouts and restarts.                            *)
THEOREM CapsAreBaseOrRaised == ASSUME Recoverable PROVE Spec => []BaseOrRaised
  <1>1. SInv => BaseOrRaised
    BY DEF SInv, CapsKnown, BaseOrRaised, Base, Up
  <1> QED
    BY <1>1, Invariant, PTL

(* config.py on state_file: whenever the caps are raised, the base is on     *)
(* disk, so that whoever starts next can go back to it.                      *)
THEOREM BaseIsOnDisk == ASSUME Recoverable PROVE Spec => []RaisedOnRecord
  <1>1. SInv => RaisedOnRecord
    BY DEF SInv, CapsKnown, RaisedOnRecord
  <1> QED
    BY <1>1, Invariant, PTL

(* The daemon with its threads, its record and its restarts does nothing to  *)
(* the caps but what CapPromise lets it do: note the base, raise once from a *)
(* noted base, restore.                                                      *)
THEOREM ImplementsPromise ==
    ASSUME Recoverable
    PROVE  Spec => Promise!Init /\ [][Promise!Next]_(Promise!vars)
  <1>1. Init => Promise!Init
    BY DEF Init, Promise!Init
  <1>2. TInv /\ SInv /\ [Next]_vars => [Promise!Next]_(Promise!vars)
    BY NextKeepsPromise
  <1> QED
    BY <1>1, <1>2, Invariant, PTL DEF Spec

-----------------------------------------------------------------------------
(* Behind RaisedBriefly: the caps have been up for no longer than the        *)
(* limiter's own clock says, which starts when the raise is decided, and     *)
(* once act has run in this interval that clock is short of a pulse.         *)
Brisk ==
    /\ raisedFor <= Pulse
    /\ caps = Base => raisedFor = 0
    /\ lim # None /\ lim.raised =>
          /\ raisedFor <= lim.since
          /\ work["act"] # None => lim.since = 0
          /\ phase = "running" /\ ~due /\ work["act"] = None => lim.since < Pulse

(* Act, observing the queue, keeps the pulse brisk.                          *)
LEMMA ObserveBrisk ==
    ASSUME TInv, SInv, Brisk, ActObserve
    PROVE  Brisk'
  <1> DEFINE l == Limiter
  <1>1. /\ phase = "running" /\ work["act"] = None
        /\ UNCHANGED <<caps, phase, raisedFor>>
        /\ caps = Up => lim # None /\ lim.raised
        /\ caps \in {Base, Up} /\ TypeOK
    BY DEF ActObserve, ActDue, history, SInv, CapsKnown, UpHasAnEnd, TInv
  <1>2. /\ l.raised => lim # None /\ lim.raised /\ l.base = Base
        /\ l \in Limiters /\ (lim # None => l = lim)
    BY <1>1, LimiterFacts
  <1>3. raisedFor <= Pulse /\ (caps = Base => raisedFor = 0)
    BY DEF Brisk
  <1>4. CASE lim'.raised = FALSE
    BY <1>1, <1>3, <1>4 DEF Brisk
  <1>5. CASE lim' = Reset(l)
    BY <1>2, <1>4, <1>5, ResetType
  <1>6. CASE l.raised /\ ~PulseOver(l) /\ lim' = l /\ UNCHANGED work
    <2>1. l = lim /\ lim.since \in Nat /\ lim.since < Pulse
      BY <1>2, <1>6, ConstantsAssumption DEF Limiters, PulseOver
    <2> QED
      BY <1>1, <1>6, <2>1 DEF Brisk
  <1>7. CASE lim' = Started(l, l.base) /\ ~l.raised
    <2>1. lim'.since = 0
      BY <1>2, <1>7 DEF Started, Limiters
    <2>2. raisedFor = 0
      BY <1>1, <1>2, <1>3, <1>7
    <2> QED
      BY <1>1, <1>3, <2>1, <2>2, ConstantsAssumption DEF Brisk
  <1>8. CASE ~l.raised /\ \E idle, held \in BOOLEAN :
                lim' = [l EXCEPT !.streak = NextStreak(l, idle, held)]
    <2>1. lim'.raised = l.raised
      BY <1>2, <1>8 DEF Limiters
    <2>2. lim'.raised = FALSE
      BY <1>2, <1>8, <2>1 DEF Limiters
    <2> QED
      BY <1>4, <2>2
  <1>9. CASE ~Known(l.base) /\ lim' = l
    <2>1. l.raised = FALSE
      BY <1>2, <1>9, CapsFacts DEF Limiters
    <2> QED
      BY <1>4, <1>9, <2>1
  <1> QED
    BY <1>5, <1>6, <1>7, <1>8, <1>9 DEF ActObserve, Observe

(* A step of a change keeps it.                                              *)
LEMMA ApplyBrisk ==
    ASSUME TInv, SInv, Brisk, NEW t \in Threads, Apply(t) \/ SendFails(t)
    PROVE  Brisk'
  <1>1. work[t] # None
    BY DEF Apply, SetBlocked, SetCaps, Send, Forget, SendFails, At
  <1>2. /\ lim # None
        /\ \/ lim.raised /\ RaiseUnderWay(work[t]) /\ t = "act"
           \/ ~lim.raised /\ ReturnUnderWay(work[t])
    BY <1>1, AtWork
  <1>3. UNCHANGED <<phase, lim, due>>
    BY DEF Apply, SetBlocked, SetCaps, Send, Forget, SendFails
  <1>4. /\ caps' = Base => raisedFor' = 0
        /\ raisedFor' \in {0, raisedFor}
    <2>1. CASE UNCHANGED <<caps, history>>
      BY <2>1 DEF Brisk, history
    <2>2. CASE Land(work[t].change)
      BY <2>2 DEF Land, Brisk, SInv, CapsKnown
    <2> QED
      BY <2>1, <2>2 DEF Apply, SetBlocked, SetCaps, Send, Forget, SendFails
  <1>5. lim.raised => lim.since = 0 /\ raisedFor = 0
    BY <1>1, <1>2 DEF Brisk, RaiseUnderWay
  <1> QED
    BY <1>2, <1>3, <1>4, <1>5, ConstantsAssumption DEF Brisk

(* Each step keeps it.                                                       *)
LEMMA NextBrisk ==
    ASSUME Recoverable, "drained" \notin Faults, TInv, SInv, Brisk, [Next]_vars
    PROVE  Brisk'
  <1>1. CASE ActObserve
    BY <1>1, ObserveBrisk
  <1>2. CASE FollowLower \/ FollowRaise \/ FollowBlind
    <2>1. /\ work["act"] # None
          /\ UNCHANGED <<caps, phase, lim, due, raisedFor>>
      BY <1>2, FollowStep
    <2> QED
      BY <2>1, ConstantsAssumption DEF Brisk
  <1>3. ASSUME NEW t \in Threads, Apply(t) \/ SendFails(t) PROVE Brisk'
    BY <1>3, ApplyBrisk
  (* Nothing happens to the limiter, or it is at rest; and act is not due to *)
  (* look at it.                                                             *)
  <1>4. ASSUME UNCHANGED <<caps, raisedFor>>,
               lim' = None \/ ~lim'.raised \/ UNCHANGED lim,
               UNCHANGED work \/ lim' = None \/ ~lim'.raised,
               due' \/ phase' # "running" \/ UNCHANGED <<due, phase>>
        PROVE  Brisk'
    BY <1>4 DEF Brisk
  <1>5. CASE Start \/ Join \/ Run \/ Stop \/ Disable \/ Enable \/ UNCHANGED vars
    BY <1>4, <1>5 DEF Start, Join, Run, Stop, Disable, Enable, vars, sjpd, history
  <1>6. CASE Exit \/ Kill
    BY <1>4, <1>6 DEF Exit, Kill, MemoryLost, history
  <1>7. CASE ActNothing
    BY <1>7 DEF ActNothing, history, Brisk
  <1>8. CASE ActUnknown
    <2>1. lim'.raised = FALSE /\ UNCHANGED <<caps, raisedFor>>
      BY <1>8 DEF ActUnknown, NewLimiter, history
    <2> QED
      BY <2>1 DEF Brisk
  <1>9. CASE RestoreNothing \/ RestoreForget \/ RestoreCaps
    <2>1. /\ phase \in {"startup", "shutdown"} /\ phase' # "running"
          /\ UNCHANGED <<caps, raisedFor>>
      BY <1>9 DEF RestoreNothing, RestoreForget, RestoreCaps, Restoring, NextPhase, history
    <2>2. Limiter \in Limiters /\ Limiter # None /\ (Limiter.raised => Limiter = lim)
      <3>1. CASE lim # None
        BY <3>1, LimiterType DEF TInv, Limiter
      <3>2. CASE lim = None
        BY <3>2, LimiterType, NewLimiterType DEF TInv, TypeOK, Limiter
      <3> QED
        BY <3>1, <3>2
    <2>3. CASE RestoreNothing
      BY <1>4, <2>1, <2>2, <2>3 DEF RestoreNothing
    <2>4. CASE lim' = Reset(Limiter)
      BY <1>4, <2>1, <2>2, <2>4, ResetType
    <2> QED
      BY <1>9, <2>3, <2>4 DEF RestoreForget, RestoreCaps
  <1>10. CASE Tick
    <2>1. CASE phase = "down"
      BY <1>10, <2>1 DEF Tick, SInv, MemoryAgrees, Brisk
    <2>2. CASE phase = "running" /\ caps = Base
      <3>1. raisedFor' = 0 /\ caps' = Base /\ due'
        BY <1>10, <2>2 DEF Tick, Brisk, SInv, CapsKnown
      <3>2. CASE lim = None
        BY <1>10, <3>1, <3>2, ConstantsAssumption DEF Tick, Brisk
      <3>3. CASE lim # None
        <4>1. lim' \in Limiters /\ work["act"] = None /\ UNCHANGED work
          BY <1>10, <2>2, <3>3, TickLimiter DEF TInv, Tick
        <4> QED
          BY <3>1, <4>1, ConstantsAssumption DEF Brisk, Limiters
      <3> QED
        BY <3>2, <3>3
    <2>3. CASE phase = "running" /\ caps = Up
      <3>1. ~due /\ work["act"] = None /\ lim # None /\ lim.raised /\ UNCHANGED <<caps, work>>
        BY <1>10, <2>3 DEF Tick, SInv, UpHasAnEnd
      <3>2. raisedFor <= lim.since /\ lim.since < Pulse
        BY <2>3, <3>1 DEF Brisk
      <3>3. lim \in Limiters /\ lim.since \in Nat /\ raisedFor \in Nat /\ Pulse \in Nat
        BY <3>1, ConstantsAssumption DEF TInv, TypeOK, Limiters
      <3>4. lim'.since = lim.since + 1 /\ raisedFor' = raisedFor + 1 /\ due'
        BY <1>10, <2>3, <3>1, <3>2, <3>3, CapsFacts
           DEF Tick, Limiters, SInv, CapsKnown
      <3> QED
        BY <2>3, <3>1, <3>2, <3>3, <3>4, CapsFacts DEF Brisk
    <2> QED
      BY <1>10, <2>1, <2>2, <2>3 DEF Tick, SInv, CapsKnown
  <1>11. ASSUME ActDrained \/ \E new \in AdminCaps : AdminSets(new) PROVE FALSE
    BY <1>11 DEF ActDrained, Fault, AdminSets, Recoverable, TInv, TypeOK
  <1> QED
    BY <1>1, <1>2, <1>3, <1>5, <1>6, <1>7, <1>8, <1>9, <1>10, <1>11
       DEF Next, ActNext, MainNext, FaultNext

(* limits.py: the caps are never raised for long, here no longer than one    *)
(* pulse of sjpd's running time, whatever stops, crashes and times out, as   *)
(* long as act always has a usable node to look at.                          *)
THEOREM CapsAreRaisedBriefly ==
    ASSUME Recoverable, "drained" \notin Faults
    PROVE  Spec => []RaisedBriefly
  <1>1. Init => Brisk
    BY ConstantsAssumption DEF Init, Brisk
  <1>2. TInv /\ SInv /\ Brisk /\ [Next]_vars => Brisk'
    BY NextBrisk
  <1>3. Brisk => RaisedBriefly
    BY DEF Brisk, RaisedBriefly
  <1> QED
    BY <1>1, <1>2, <1>3, Invariant, PTL DEF Spec

-----------------------------------------------------------------------------
(* An admin who sets the caps by hand, during a pulse or at rest, but not in *)
(* the middle of a change of sjpd's, while sjpd runs undisturbed: only a     *)
(* raise fails, the cluster is drained, or the disable file comes and goes.  *)
(* Caps set by hand are never what a pulse would have made of others: those  *)
(* follow_admin cannot tell from its own.                                    *)
HandCaps == AdminCaps \cup {InitialCaps}

Undisturbed ==
    /\ Faults \subseteq {"raise", "drained", "disable"}
    /\ ~AdminAnytime
    /\ \A c, d \in HandCaps : Known(d) => c # Raised(d)

(* The one run of sjpd, whose main thread has nothing to put back.           *)
OneRun ==
    /\ phase \in {"down", "startup", "restored", "running"} /\ work["main"] = None
    /\ phase # "running" => lim = None /\ work["act"] = None
    /\ wanted \in HandCaps
    /\ lim # None => lim.base \in HandCaps

(* Without a limiter nothing has been raised or recorded yet.                *)
NothingYet ==
    lim = None => /\ record = None /\ disk = None /\ caps = wanted
                  /\ work["act"] = None /\ sinceLowered = Cooldown

(* A limiter at rest leaves the caps alone, and has counted its cooldown     *)
(* from no later than the caps came back.                                    *)
RestsAtWanted ==
    lim # None /\ ~lim.raised /\ work["act"] = None =>
        caps = wanted /\ lim.lowered <= sinceLowered

(* During a pulse the caps are those of the pulse, with the base on disk, or *)
(* what an admin wants.                                                      *)
OfThePulse(up) == caps = wanted \/ (caps = up /\ wanted = lim.base /\ disk = wanted)
PulseKnown ==
    lim # None /\ lim.raised =>
        /\ Known(lim.base) /\ lim.cur = Raised(lim.base)
        /\ work["act"] = None => OfThePulse(lim.cur)

(* A change under way: a raise from what is wanted, after the cooldown; or   *)
(* the way back to it, for which the cooldown has just begun.                *)
RaiseByHand(w) ==
    /\ caps = wanted /\ sinceLowered >= Cooldown
    /\ w.pc # "forget" /\ w.change = lim.cur
    /\ w.pc # "follow" => w.before = caps /\ lim.base = caps
    /\ w.pc = "send" => disk = caps

ReturnByHand(w) ==
    /\ Known(lim.base) /\ w.change = lim.base /\ w.before = Raised(lim.base)
    /\ lim.lowered = 0 /\ OfThePulse(w.before)
    /\ w.pc # "follow" => wanted = lim.base
    /\ w.pc = "forget" => caps = wanted

ChangeByHand ==
    work["act"] # None =>
        IF lim.raised THEN RaiseByHand(work["act"]) ELSE ReturnByHand(work["act"])

HInv == OneRun /\ NothingYet /\ RestsAtWanted /\ PulseKnown /\ ChangeByHand

(* The raised caps of known ones are larger.                                 *)
LEMMA RaisedIsMore ==
    ASSUME NEW c \in CapPairs, Known(c)
    PROVE  /\ Raised(c) \in CapPairs /\ c[1] # 0
           /\ c[1] <= Raised(c)[1] /\ c[2] <= Raised(c)[2] /\ ~ (Raised(c)[1] <= c[1])
  <1>1. c[1] \in Nat /\ c[2] \in Nat /\ c[1] > 0 /\ c[2] > 0 /\ Ceiling \in Nat /\ Ceiling > 1
    BY ConstantsAssumption DEF CapPairs, Known
  <1>2. \A m, k \in Nat : m > 0 /\ k > 1 => m * k \in Nat /\ m * k > m
    OBVIOUS
  <1>3. /\ c[1] * Ceiling \in Nat /\ c[1] * Ceiling > c[1]
        /\ c[2] * Ceiling \in Nat /\ c[2] * Ceiling > c[2]
    BY <1>1, <1>2
  <1> QED
    BY <1>1, <1>3 DEF Raised, CapPairs

(* What fails while sjpd is undisturbed.                                     *)
LEMMA OnlyThese ==
    ASSUME Undisturbed, NEW kind, Fault(kind)
    PROVE  kind \in {"raise", "drained", "disable"}
  BY DEF Undisturbed, Fault

(* The invariant holds initially.                                            *)
LEMMA InitHInv == Init => HInv
  BY ConstantsAssumption DEF Init, HInv, OneRun, NothingYet, RestsAtWanted, PulseKnown,
     ChangeByHand, HandCaps, Threads

(* The limiter that act looks at, one that is there or a new one.            *)
LEMMA LimiterByHand ==
    ASSUME TInv, HInv, work["act"] = None
    PROVE  /\ Limiter \in Limiters /\ Limiter # None /\ Limiter.base \in HandCaps
           /\ Limiter.base \in CapPairs /\ Limiter.cur \in CapPairs
           /\ ~Limiter.raised => /\ caps = wanted /\ Limiter.cur = Limiter.base
                                 /\ Limiter.lowered <= sinceLowered
           /\ Limiter.raised =>
                 /\ Known(Limiter.base) /\ Limiter.cur = Raised(Limiter.base)
                 /\ \/ caps = wanted
                    \/ caps = Limiter.cur /\ wanted = Limiter.base /\ disk = wanted
  <1>1. /\ Limiter \in Limiters /\ Limiter # None
        /\ ~Limiter.raised => Limiter.cur = Limiter.base
    BY LimiterType DEF TInv
  <1>2. Limiter.base \in CapPairs /\ Limiter.cur \in CapPairs
    BY <1>1 DEF Limiters
  <1>3. CASE lim # None
    BY <1>1, <1>2, <1>3 DEF Limiter, HInv, OneRun, RestsAtWanted, PulseKnown, OfThePulse
  <1>4. CASE lim = None
    <2>1. Limiter = NewLimiter(wanted) /\ caps = wanted /\ sinceLowered = Cooldown
      BY <1>4 DEF Limiter, HInv, NothingYet
    <2>2. /\ Limiter.raised = FALSE /\ Limiter.base = wanted /\ Limiter.lowered = Cooldown
          /\ wanted \in HandCaps /\ Cooldown <= Cooldown
      BY <2>1, ConstantsAssumption DEF NewLimiter, HInv, OneRun
    <2> QED
      BY <1>1, <1>2, <2>1, <2>2
  <1> QED
    BY <1>3, <1>4

(* act: a pulse begins, ends or goes on.                                     *)
LEMMA ObserveHInv == ASSUME TInv, HInv, ActObserve PROVE HInv'
  <1> USE DEF Threads
  <1> DEFINE l == Limiter
  <1>1. /\ phase = "running" /\ work["act"] = None /\ work["main"] = None
        /\ UNCHANGED <<caps, disk, phase, record, wanted, sinceLowered>>
        /\ wanted \in HandCaps /\ sinceLowered \in 0 .. Cooldown /\ Cooldown \in Nat
        /\ TypeOK
    BY ConstantsAssumption
       DEF ActObserve, ActDue, history, HInv, OneRun, TInv, TypeOK
  <1>2. /\ l \in Limiters /\ l # None /\ l.base \in HandCaps
        /\ l.base \in CapPairs /\ l.cur \in CapPairs
        /\ ~l.raised => caps = wanted /\ l.cur = l.base /\ l.lowered <= sinceLowered
        /\ l.raised => /\ Known(l.base) /\ l.cur = Raised(l.base)
                       /\ \/ caps = wanted
                          \/ caps = l.cur /\ wanted = l.base /\ disk = wanted
    BY <1>1, LimiterByHand
  <1>3. CASE l.raised /\ lim' = Reset(l) /\ Begin("act", l.base, l.cur)
    <2>1. /\ lim' # None /\ lim'.base = l.base /\ lim'.raised = FALSE /\ lim'.lowered = 0
      BY <1>2, <1>3, ResetType DEF Reset, Limiters
    <2>2. /\ work'["act"] # None /\ work'["act"].change = l.base
          /\ work'["act"].before = l.cur
          /\ work'["act"].pc = "follow" /\ work'["main"] = None
      BY <1>1, <1>2, <1>3, BeginType
    <2> QED
      BY <1>1, <1>2, <1>3, <2>1, <2>2 DEF HInv, OneRun, NothingYet, RestsAtWanted, PulseKnown,
         ChangeByHand, ReturnByHand, OfThePulse
  <1>4. CASE /\ UNCHANGED work /\ lim' # None /\ lim'.base = l.base /\ lim'.cur = l.cur
             /\ lim'.raised = l.raised /\ lim'.lowered = l.lowered
    BY <1>1, <1>2, <1>4 DEF HInv, OneRun, NothingYet, RestsAtWanted, PulseKnown,
       ChangeByHand, OfThePulse
  <1>5. CASE /\ Known(l.base) /\ ~l.raised /\ l.lowered >= Cooldown
             /\ lim' = Started(l, l.base) /\ Begin("act", Raised(l.base), l.cur)
    <2>1. /\ lim' # None /\ lim'.base = l.base /\ lim'.raised = TRUE
          /\ lim'.cur = Raised(l.base)
      BY <1>2, <1>5, StartedType
    <2>2. /\ work'["act"] # None /\ work'["act"].change = Raised(l.base)
          /\ work'["act"].pc = "follow" /\ work'["main"] = None
      BY <1>1, <1>2, <1>5, RaisedType, BeginType
    <2>3. sinceLowered >= Cooldown
      BY <1>1, <1>2, <1>5 DEF Limiters
    <2> QED
      BY <1>1, <1>2, <1>5, <2>1, <2>2, <2>3 DEF HInv, OneRun, NothingYet, RestsAtWanted,
         PulseKnown, ChangeByHand, RaiseByHand
  <1>6. CASE \E idle, held \in BOOLEAN :
                lim' = [l EXCEPT !.streak = NextStreak(l, idle, held)] /\ UNCHANGED work
    <2>1. /\ lim'.base = l.base /\ lim'.cur = l.cur /\ lim'.raised = l.raised
          /\ lim'.lowered = l.lowered
      BY <1>2, <1>6 DEF Limiters
    <2>2. lim' # None
      BY <1>2, <1>6, StreakType, NoneAssumption DEF Limiters
    <2> QED
      BY <1>4, <1>6, <2>1, <2>2
  <1>7. CASE lim' = l /\ UNCHANGED work
    BY <1>2, <1>4, <1>7
  <1> QED
    BY <1>3, <1>5, <1>6, <1>7 DEF ActObserve, Observe, MayRaise

(* act: follow_admin takes the caps it finds for the base, unless they are   *)
(* those of the pulse.                                                       *)
LEMMA FollowHInv ==
    ASSUME Undisturbed, TInv, HInv, FollowLower \/ FollowRaise
    PROVE  HInv'
  <1> USE DEF Threads
  <1> DEFINE w == work["act"]
  <1>1. /\ w # None /\ w.pc = "follow" /\ lim \in Limiters /\ lim # None /\ TypeOK
        /\ w.change \in CapPairs /\ w.before \in CapPairs
        /\ caps \in CapPairs /\ Raised(caps) \in CapPairs
    BY AtType, RaisedType DEF FollowLower, FollowRaise, At, TInv, TypeOK
  <1>2. /\ phase = "running" /\ work["main"] = None /\ wanted \in HandCaps
        /\ lim.base \in HandCaps
        /\ lim.raised => RaiseByHand(w) /\ Known(lim.base) /\ lim.cur = Raised(lim.base)
        /\ ~lim.raised => ReturnByHand(w)
    BY <1>1 DEF HInv, OneRun, PulseKnown, ChangeByHand
  <1>3. /\ UNCHANGED <<caps, phase, wanted, sinceLowered>>
        /\ sinceLowered \in 0 .. Cooldown /\ Cooldown \in Nat
        /\ lim.lowered \in 0 .. Cooldown
    BY <1>1, ConstantsAssumption DEF FollowLower, FollowRaise, history, TypeOK, Limiters
  <1>4. CASE FollowLower
    <2>1. ~lim.raised /\ ReturnByHand(w) /\ Known(lim.base) /\ lim.lowered = 0
      BY <1>2, <1>4 DEF FollowLower, ReturnByHand
    <2>2. CASE ByHand(caps, w.before, lim.base)
      <3>1. lim' = SetBase(lim, caps) /\ record' = None /\ Done("act")
        BY <1>4, <2>2 DEF FollowLower, Remember
      <3>2. /\ lim' # None /\ lim'.base = caps /\ lim'.raised = FALSE /\ lim'.lowered = 0
        BY <1>1, <2>1, <3>1, NoneAssumption DEF Limiters, SetBase
      <3>3. caps = wanted
        BY <2>1, <2>2 DEF ReturnByHand, OfThePulse, ByHand
      <3>4. work'["act"] = None /\ work'["main"] = None
        BY <1>1, <1>2, <3>1, DoneType
      <3> QED
        BY <1>2, <1>3, <3>2, <3>3, <3>4 DEF HInv, OneRun, NothingYet, RestsAtWanted,
           PulseKnown, ChangeByHand
    <2>3. CASE ~ByHand(caps, w.before, lim.base)
      <3>1. Goto("act", "set", w.change, w.before) /\ UNCHANGED <<lim, record, disk>>
        BY <1>4, <2>3 DEF FollowLower
      <3>2. wanted = lim.base
        BY <1>2, <2>1, <2>3 DEF ReturnByHand, OfThePulse, ByHand, Undisturbed
      <3>3. /\ work'["act"] # None /\ work'["act"].pc = "set"
            /\ work'["act"].change = w.change /\ work'["act"].before = w.before
            /\ work'["main"] = None
        BY <1>1, <1>2, <3>1, GotoType
      <3> QED
        BY <1>1, <1>2, <1>3, <2>1, <3>1, <3>2, <3>3 DEF HInv, OneRun, NothingYet,
           RestsAtWanted, PulseKnown, ChangeByHand, ReturnByHand, OfThePulse
    <2> QED
      BY <2>2, <2>3
  <1>5. CASE FollowRaise
    <2>1. lim.raised /\ caps = wanted /\ sinceLowered >= Cooldown /\ w.change = lim.cur
      BY <1>2, <1>5 DEF FollowRaise, RaiseByHand
    <2>2. CASE caps = lim.base /\ Goto("act", "set", w.change, caps) /\ UNCHANGED lim
      <3>1. /\ work'["act"] # None /\ work'["act"].pc = "set"
            /\ work'["act"].change = w.change /\ work'["act"].before = caps
            /\ work'["main"] = None
        BY <1>1, <1>2, <2>2, GotoType
      <3> QED
        BY <1>1, <1>2, <1>3, <2>1, <2>2, <3>1 DEF HInv, OneRun, NothingYet,
           RestsAtWanted, PulseKnown, ChangeByHand, RaiseByHand
    <2>3. CASE /\ Known(caps)
               /\ lim' = [lim EXCEPT !.base = caps, !.cur = Raised(caps)]
               /\ Goto("act", "set", Raised(caps), caps)
      <3>1. /\ lim' # None /\ lim'.base = caps /\ lim'.raised = TRUE
            /\ lim'.cur = Raised(caps)
        BY <1>1, <2>1, <2>3, NoneAssumption DEF Limiters
      <3>2. /\ work'["act"] # None /\ work'["act"].pc = "set"
            /\ work'["act"].change = Raised(caps) /\ work'["act"].before = caps
            /\ work'["main"] = None
        BY <1>1, <1>2, <2>3, GotoType
      <3> QED
        BY <1>2, <1>3, <2>1, <2>3, <3>1, <3>2 DEF HInv, OneRun, NothingYet,
           RestsAtWanted, PulseKnown, ChangeByHand, RaiseByHand
    <2>4. CASE /\ lim' = SetBase([lim EXCEPT !.raised = FALSE], caps)
               /\ Done("act")
      <3>1. /\ lim' # None /\ lim'.base = caps /\ lim'.raised = FALSE
            /\ lim'.lowered = lim.lowered
        BY <1>1, <2>4, NoneAssumption DEF Limiters, SetBase
      <3>2. work'["act"] = None /\ work'["main"] = None
        BY <1>1, <1>2, <2>4, DoneType
      <3> QED
        BY <1>2, <1>3, <2>1, <3>1, <3>2 DEF HInv, OneRun, NothingYet, RestsAtWanted,
           PulseKnown, ChangeByHand
    <2> QED
      BY <1>5, <2>2, <2>3, <2>4 DEF FollowRaise
  <1> QED
    BY <1>4, <1>5

(* Of act at work: a raise adds to what is wanted, a return brings it back.  *)
LEMMA AtWorkByHand ==
    ASSUME TInv, HInv, NEW t \in Threads, work[t] # None
    PROVE  /\ t = "act" /\ phase = "running" /\ work["main"] = None
           /\ lim \in Limiters /\ lim # None /\ lim.base \in HandCaps /\ wanted \in HandCaps
           /\ work[t].change \in CapPairs /\ work[t].before \in CapPairs
           /\ \/ /\ lim.raised /\ RaiseByHand(work[t])
                 /\ Known(lim.base) /\ lim.cur = Raised(lim.base)
                 /\ work[t].pc # "follow" => ~Lowering(t)
              \/ ~lim.raised /\ ReturnByHand(work[t]) /\ Lowering(t)
  <1>1. t = "act"
    BY DEF HInv, OneRun, Threads
  <1>2. /\ phase = "running" /\ work["main"] = None
        /\ lim \in Limiters /\ lim # None /\ lim.base \in HandCaps /\ wanted \in HandCaps
        /\ work[t].change \in CapPairs /\ work[t].before \in CapPairs
        /\ lim.raised => RaiseByHand(work[t]) /\ Known(lim.base) /\ lim.cur = Raised(lim.base)
        /\ ~lim.raised => ReturnByHand(work[t]) /\ Known(lim.base)
        /\ lim.base \in CapPairs
    BY <1>1 DEF HInv, OneRun, PulseKnown, ChangeByHand, ReturnByHand, TInv, TypeOK,
       WorkHasLimiter, Works, Limiters
  <1>3. /\ lim.base[1] # 0 /\ lim.base[1] <= Raised(lim.base)[1]
        /\ lim.base[2] <= Raised(lim.base)[2] /\ ~ (Raised(lim.base)[1] <= lim.base[1])
    BY <1>2, RaisedIsMore
  <1>4. ASSUME lim.raised, work[t].pc # "follow" PROVE ~Lowering(t)
    <2>1. work[t].change = Raised(lim.base) /\ work[t].before = lim.base
      BY <1>2, <1>4 DEF RaiseByHand
    <2> QED
      BY <1>3, <2>1, 1 \in 1 .. 2 DEF Lowering
  <1>5. ASSUME ~lim.raised PROVE Lowering(t)
    <2>1. work[t].change = lim.base /\ work[t].before = Raised(lim.base)
      BY <1>2, <1>5 DEF ReturnByHand
    <2>2. \A i \in 1 .. 2 : i = 1 \/ i = 2
      OBVIOUS
    <2> QED
      BY <1>3, <2>1, <2>2 DEF Lowering
  <1> QED
    BY <1>1, <1>2, <1>4, <1>5

(* set_caps, and the command that fails: the caps go to where the pulse      *)
(* takes them, or stay.                                                      *)
LEMMA ApplyHInv ==
    ASSUME Undisturbed, TInv, HInv, NEW t \in Threads, Apply(t) \/ SendFails(t)
    PROVE  HInv'
  <1> USE DEF Threads
  <1> DEFINE w == work["act"]
  <1>1. work[t] # None /\ work[t].pc \in {"set", "send", "forget"}
    BY DEF Apply, SetBlocked, SetCaps, Send, Forget, SendFails, At
  <1>2. /\ t = "act" /\ phase = "running" /\ work["main"] = None
        /\ lim \in Limiters /\ lim # None /\ lim.base \in HandCaps /\ wanted \in HandCaps
        /\ w.change \in CapPairs /\ w.before \in CapPairs /\ TypeOK
        /\ \/ /\ lim.raised /\ RaiseByHand(w) /\ ~Lowering("act")
              /\ Known(lim.base) /\ lim.cur = Raised(lim.base)
           \/ ~lim.raised /\ ReturnByHand(w) /\ Lowering("act")
    BY <1>1, AtWorkByHand DEF TInv
  <1>3. /\ UNCHANGED <<phase, lim, wanted>>
        /\ lim.lowered \in 0 .. Cooldown /\ sinceLowered \in 0 .. Cooldown /\ Cooldown \in Nat
    BY <1>2, ConstantsAssumption
       DEF Apply, SetBlocked, SetCaps, Send, Forget, SendFails, Land, history, TypeOK, Limiters
  <1>4. \A base : Remember(base) => record' = base /\ disk' = base
    BY OnlyThese DEF Remember
  <1>5. CASE SetBlocked("act")
    <2>1. lim.raised /\ caps = wanted /\ UNCHANGED <<caps, disk, sinceLowered>> /\ Done("act")
      BY <1>2, <1>5 DEF SetBlocked, Blocked, RaiseByHand, history
    <2>2. work'["act"] = None /\ work'["main"] = None
      BY <1>2, <2>1, DoneType
    <2> QED
      BY <1>2, <1>3, <2>1, <2>2 DEF HInv, OneRun, NothingYet, RestsAtWanted, PulseKnown,
         ChangeByHand, OfThePulse
  <1>6. CASE SetCaps("act")
    <2>1. /\ w.pc = "set" /\ UNCHANGED <<caps, sinceLowered>>
          /\ Goto("act", "send", w.change, w.before)
      BY <1>6 DEF SetCaps, At, history
    <2>2. /\ work'["act"] # None /\ work'["act"].pc = "send" /\ work'["main"] = None
          /\ work'["act"].change = w.change /\ work'["act"].before = w.before
      BY <1>2, <2>1, GotoType
    <2>3. CASE lim.raised
      <3>1. disk' = lim.base
        BY <1>2, <1>4, <1>6, <2>3 DEF SetCaps, BaseToRecord
      <3> QED
        BY <1>2, <1>3, <2>1, <2>2, <2>3, <3>1 DEF HInv, OneRun, NothingYet, RestsAtWanted,
           PulseKnown, ChangeByHand, RaiseByHand
    <2>4. CASE ~lim.raised
      <3>1. UNCHANGED <<disk, record>>
        BY <1>2, <1>6, <2>4 DEF SetCaps
      <3> QED
        BY <1>2, <1>3, <2>1, <2>2, <2>4, <3>1 DEF HInv, OneRun, NothingYet, RestsAtWanted,
           PulseKnown, ChangeByHand, ReturnByHand, OfThePulse
    <2> QED
      BY <2>3, <2>4
  <1>7. CASE Send("act")
    <2>1. /\ w.pc = "send" /\ caps' = w.change /\ UNCHANGED disk
          /\ sinceLowered' = IF w.change = wanted /\ caps # wanted THEN 0 ELSE sinceLowered
      BY <1>7 DEF Send, At, Land
    <2>2. CASE lim.raised
      <3>1. work'["act"] = None /\ work'["main"] = None
        BY <1>2, <1>7, <2>2, DoneType DEF Send
      <3> QED
        BY <1>2, <1>3, <2>1, <2>2, <3>1 DEF HInv, OneRun, NothingYet, RestsAtWanted,
           PulseKnown, ChangeByHand, RaiseByHand, OfThePulse
    <2>3. CASE ~lim.raised
      <3>1. /\ work'["act"] # None /\ work'["act"].pc = "forget" /\ work'["main"] = None
            /\ work'["act"].change = w.change /\ work'["act"].before = w.before
        BY <1>2, <1>7, <2>3, GotoType DEF Send
      <3>2. caps' = wanted
        BY <1>2, <2>1, <2>3 DEF ReturnByHand
      <3> QED
        BY <1>2, <1>3, <2>1, <2>3, <3>1, <3>2 DEF HInv, OneRun, NothingYet, RestsAtWanted,
           PulseKnown, ChangeByHand, ReturnByHand, OfThePulse
    <2> QED
      BY <2>2, <2>3
  <1>8. CASE Forget("act")
    <2>1. w.pc = "forget" /\ UNCHANGED <<caps, sinceLowered>> /\ Done("act")
      BY <1>8 DEF Forget, At, history
    <2>2. work'["act"] = None /\ work'["main"] = None
      BY <1>2, <2>1, DoneType
    <2>3. ~lim.raised /\ caps = wanted /\ lim.lowered = 0
      BY <1>2, <2>1 DEF RaiseByHand, ReturnByHand
    <2> QED
      BY <1>2, <1>3, <2>1, <2>2, <2>3 DEF HInv, OneRun, NothingYet, RestsAtWanted, PulseKnown,
         ChangeByHand
  <1>9. CASE SendFails("act")
    <2>1. lim.raised /\ w.pc = "send" /\ UNCHANGED disk /\ Done("act")
      BY <1>2, <1>9, OnlyThese DEF SendFails, At
    <2>2. work'["act"] = None /\ work'["main"] = None
      BY <1>2, <2>1, DoneType
    <2>3. caps' = w.change \/ caps' = caps
      BY <1>9 DEF SendFails, Land
    <2> QED
      BY <1>2, <1>3, <2>1, <2>2, <2>3 DEF HInv, OneRun, NothingYet, RestsAtWanted, PulseKnown,
         ChangeByHand, RaiseByHand, OfThePulse
  <1> QED
    BY <1>2, <1>5, <1>6, <1>7, <1>8, <1>9 DEF Apply

(* Each step keeps the invariant.                                            *)
LEMMA NextHInv ==
    ASSUME Undisturbed, TInv, HInv, [Next]_vars
    PROVE  HInv'
  <1>1. CASE ActObserve
    BY <1>1, ObserveHInv
  <1>2. CASE FollowLower \/ FollowRaise
    BY <1>2, FollowHInv
  <1>3. ASSUME NEW t \in Threads, Apply(t) \/ SendFails(t) PROVE HInv'
    BY <1>3, ApplyHInv
  <1>4. ASSUME UNCHANGED <<caps, disk, lim, record, work, wanted, sinceLowered>>,
               phase' \in {"startup", "restored", "running"},
               lim = None \/ phase' = phase
        PROVE  HInv'
    BY <1>4 DEF HInv, OneRun, NothingYet, RestsAtWanted, PulseKnown, ChangeByHand,
       RaiseByHand, ReturnByHand, OfThePulse
  <1>5. CASE ActNothing \/ ActDrained \/ Disable \/ Enable \/ UNCHANGED vars
    <2>1. /\ UNCHANGED <<caps, disk, lim, record, work, wanted, sinceLowered, phase>>
      BY <1>5 DEF ActNothing, ActDrained, Disable, Enable, vars, sjpd, history
    <2> QED
      BY <2>1 DEF HInv, OneRun, NothingYet, RestsAtWanted, PulseKnown, ChangeByHand,
         RaiseByHand, ReturnByHand, OfThePulse
  <1>6. CASE Start
    <2>1. lim = None /\ disk = None /\ record = None
      BY <1>6 DEF Start, HInv, OneRun, NothingYet
    <2> QED
      BY <1>4, <1>6, <2>1 DEF Start, RecordFound, history
  <1>7. CASE RestoreNothing \/ RestoreForget \/ RestoreCaps
    <2>1. lim = None /\ record = None /\ phase = "startup"
      BY <1>7 DEF RestoreNothing, RestoreForget, RestoreCaps, Restoring, HInv, OneRun, NothingYet
    <2>2. ~ToRestore
      BY <2>1 DEF ToRestore
    <2> QED
      BY <1>4, <1>7, <2>1, <2>2 DEF RestoreNothing, RestoreForget, RestoreCaps, NextPhase, history
  <1>8. CASE Run
    BY <1>4, <1>8 DEF Run, history, HInv, OneRun
  <1>9. ASSUME NEW new \in AdminCaps, AdminSets(new) PROVE HInv'
    <2>1. /\ work["act"] = None /\ caps' = new /\ wanted' = new
          /\ sinceLowered' = IF caps # wanted THEN 0 ELSE sinceLowered
          /\ UNCHANGED <<disk, phase, record, lim, work>>
      BY <1>9 DEF AdminSets, Undisturbed, Threads, sjpd
    <2>2. new \in HandCaps
      BY DEF HandCaps
    <2> QED
      BY <2>1, <2>2 DEF HInv, OneRun, NothingYet, RestsAtWanted, PulseKnown, ChangeByHand,
         OfThePulse
  <1>10. CASE Tick
    <2>1. /\ work["act"] = None /\ UNCHANGED <<caps, disk, phase, record, work, wanted>>
          /\ sinceLowered' = IF sinceLowered = Cooldown THEN Cooldown ELSE sinceLowered + 1
          /\ sinceLowered \in 0 .. Cooldown /\ Cooldown \in Nat
      BY <1>10, ConstantsAssumption DEF Tick, HInv, OneRun, TInv, TypeOK
    <2>2. CASE lim = None
      BY <1>10, <2>1, <2>2 DEF Tick, HInv, OneRun, NothingYet, RestsAtWanted, PulseKnown,
         ChangeByHand
    <2>3. CASE lim # None
      <3>1. /\ lim' # None /\ lim'.raised = lim.raised /\ lim'.cur = lim.cur
            /\ lim'.base = lim.base
        BY <1>10, <2>3, TickLimiter DEF TInv
      <3>2. /\ lim \in Limiters /\ lim.lowered \in 0 .. Cooldown
            /\ lim'.lowered = IF lim.lowered = Cooldown THEN lim.lowered ELSE lim.lowered + 1
        BY <1>10, <2>3 DEF Tick, TInv, TypeOK, Limiters
      <3>3. lim.lowered <= sinceLowered => lim'.lowered <= sinceLowered'
        BY <2>1, <3>2
      <3> QED
        BY <2>1, <2>3, <3>1, <3>3 DEF HInv, OneRun, NothingYet, RestsAtWanted, PulseKnown,
           ChangeByHand, OfThePulse
    <2> QED
      BY <2>2, <2>3
  <1>11. ASSUME ActUnknown \/ FollowBlind \/ Stop \/ Join \/ Exit \/ Kill PROVE FALSE
    BY <1>11, OnlyThese
       DEF ActUnknown, FollowBlind, Stop, Join, Exit, Kill, HInv, OneRun
  <1> QED
    BY <1>1, <1>2, <1>3, <1>5, <1>6, <1>7, <1>8, <1>9, <1>10, <1>11
       DEF Next, ActNext, MainNext, FaultNext

(* It holds throughout.                                                      *)
LEMMA InvariantByHand == ASSUME Undisturbed PROVE Spec => [](TInv /\ HInv)
  <1>1. Init => TInv /\ HInv
    BY InitTInv, InitHInv
  <1>2. TInv /\ HInv /\ [Next]_vars => (TInv /\ HInv)'
    BY NextTInv, NextHInv
  <1> QED
    BY <1>1, <1>2, PTL DEF Spec

(* follow_admin: with an admin at the caps too, they are what the admin      *)
(* wants or one raise of it.                                                 *)
THEOREM CapsFollowAdmin == ASSUME Undisturbed PROVE Spec => []BaseOrRaised
  <1>1. TInv /\ HInv => BaseOrRaised
    <2> SUFFICES ASSUME TInv, HInv PROVE BaseOrRaised
      OBVIOUS
    <2>1. CASE lim = None
      BY <2>1 DEF HInv, NothingYet, BaseOrRaised
    <2>2. CASE lim # None /\ work["act"] = None
      BY <2>2 DEF HInv, RestsAtWanted, PulseKnown, OfThePulse, BaseOrRaised
    <2>3. CASE work["act"] # None
      BY <2>3 DEF HInv, ChangeByHand, RaiseByHand, ReturnByHand, OfThePulse, BaseOrRaised
    <2> QED
      BY <2>1, <2>2, <2>3
  <1> QED
    BY <1>1, InvariantByHand, PTL

(* config.py on cooldown_seconds: "minimum time at base between pulses", for *)
(* as long as the caps have come back, not as long as sjpd has decided on    *)
(* it, and whether sjpd took the pulse before back or an admin set the caps  *)
(* by hand in the middle of it.                                              *)
THEOREM CooldownIsKept == ASSUME Undisturbed PROVE Spec => CooldownKept
  <1>1. ASSUME TInv, HInv, [Next]_vars, caps = wanted, caps' # wanted'
        PROVE  sinceLowered >= Cooldown
    <2>1. PICK t \in Threads : Send(t) \/ SendFails(t)
      BY <1>1 DEF Next, ActNext, MainNext, FaultNext, Apply, ActObserve, ActNothing, ActUnknown,
         ActDrained, FollowLower, FollowRaise, FollowBlind, SetBlocked, SetCaps, Forget,
         Start, RestoreNothing, RestoreForget, RestoreCaps, Run, Stop, Join, Exit, Kill,
         Disable, Enable, AdminSets, Tick, history, sjpd, vars
    <2>2. work[t] # None /\ work[t].pc = "send" /\ wanted' = wanted
      BY <2>1 DEF Send, SendFails, At, Land, history
    <2>3. caps' = work[t].change \/ caps' = caps
      BY <2>1 DEF Send, SendFails, Land
    <2> QED
      BY <1>1, <2>2, <2>3, AtWorkByHand DEF RaiseByHand, ReturnByHand
  <1>2. TInv /\ HInv /\ [Next]_vars => (caps = wanted /\ caps' # wanted' => sinceLowered >= Cooldown)
    BY <1>1
  <1>3. UNCHANGED vars => ~(caps = wanted /\ caps' # wanted')
    BY DEF vars, history
  <1> QED
    BY <1>2, InvariantByHand, PTL DEF Spec, CooldownKept
=============================================================================
