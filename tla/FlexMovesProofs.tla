-------------------------- MODULE FlexMovesProofs --------------------------
(* What holds of FlexMoves for all jobs, nodes, sizes, times and any number *)
(* of faults: its types, that jobs sjpd never moved are not taken out of    *)
(* the flex QOS, that a job is not moved again within the cooldown, and     *)
(* that moves never add up to more than a node has free.                    *)
EXTENDS FlexMoves, SetLemmas, TLAPS

-----------------------------------------------------------------------------
(* The inductive invariant                                                  *)

(* The act thread's record has its fields (what is in free is not needed).  *)
ActOK ==
    act \in [stage : {"idle", "unflex", "flex"}, todo : SUBSET Jobs, held : SUBSET Jobs,
             live : {act.live}, free : {act.free}, fresh : {act.fresh},
             cmd : Commands \cup {None}]

(* A mark names the job's own QOS, and is on jobs that a move reached.      *)
MarksOK ==
    \A j \in Jobs : job[j].mark # None => job[j].mark.from = "own" /\ j \in marked

(* A command is for a job just noted.  One to the flex QOS brings a mark, a *)
(* node, and a job not moved within the cooldown; one back is for a job     *)
(* that a move reached.                                                     *)
CommandOK ==
    act.cmd # None =>
        /\ seen[act.cmd.job] = 0
        /\ act.cmd.qos = "flex" =>
              /\ act.cmd.node \in Nodes
              /\ act.cmd.mark # None /\ act.cmd.mark.from = "own"
              /\ since[act.cmd.job] = Cooldown
        /\ act.cmd.qos = "own" =>
              /\ act.cmd.node = None /\ act.cmd.mark = None
              /\ job[act.cmd.job].at = "gone" \/ act.cmd.job \in marked

(* What sjpd remembers of a job is no older than what it did to it.         *)
AgesOK ==
    /\ \A j \in Jobs : seen[j] <= since[j]
    /\ act.stage = "flex" => \A j \in act.todo : seen[j] = Cooldown

IInv == TypeOK /\ ActOK /\ MarksOK /\ CommandOK /\ AgesOK

-----------------------------------------------------------------------------
(* The bounds are naturals.                                                  *)
LEMMA Limits ==
    /\ FaultBudget \in Nat /\ Cooldown \in Nat \ {0} /\ RevertAfter \in Nat \ {0}
    /\ None \notin Marks /\ None \notin Claims /\ None \notin Nodes /\ None \notin Commands
    /\ None \notin QOSes
  BY ConstantsAssumption, NoneAssumption

(* The invariant holds initially.                                            *)
LEMMA InitInv == Init => IInv
  <1> SUFFICES ASSUME Init PROVE IInv
    OBVIOUS
  <1> USE Limits
  <1>1. TypeOK
    <2>1. job \in [Jobs -> [at : Places, qos : QOSes, held : BOOLEAN, mark : Marks \cup {None}]]
      BY DEF Init, Places, QOSes
    <2>2. act.stage \in {"idle", "unflex", "flex"} /\ act.cmd \in Commands \cup {None}
          /\ act.todo \subseteq Jobs
      BY DEF Init, Idle
    <2>3. /\ load \in [Nodes -> Nat] /\ usable \subseteq Nodes
          /\ pend \in [Jobs -> Rows] /\ faults \in 0 .. FaultBudget
      BY DEF Init, Rows
    <2>5. up \in BOOLEAN /\ mode \in Modes /\ disabled \in BOOLEAN
      BY DEF Init
    <2>4. /\ flexed \in [Jobs -> Claims \cup {None}] /\ seen \in [Jobs -> 0 .. Cooldown]
          /\ moved \in [Jobs -> Nodes \cup {None, "started", "lost"}]
          /\ marked \subseteq Jobs /\ since \in [Jobs -> 0 .. Cooldown]
      BY DEF Init
    <2> QED
      BY <2>1, <2>2, <2>3, <2>4, <2>5 DEF TypeOK
  <1>2. ActOK
    BY DEF Init, ActOK, Idle
  <1>3. MarksOK /\ CommandOK /\ AgesOK
    BY DEF Init, MarksOK, CommandOK, AgesOK, Idle
  <1> QED
    BY <1>1, <1>2, <1>3 DEF IInv

(* The faults are counted within their budget.                               *)
LEMMA FaultType == ASSUME TypeOK, NEW kind, Fault(kind) PROVE faults' \in 0 .. FaultBudget
  BY Limits DEF TypeOK, Fault

(* The records that job takes on.                                           *)
Job == [at : Places, qos : QOSes, held : BOOLEAN, mark : Marks \cup {None}]

(* A job that starts, or that is put under another QOS, has its type.        *)
LEMMA RecordTypes ==
    ASSUME NEW r \in Job
    PROVE  /\ \A n \in Nodes : Running(r, n) \in Job /\ Running(r, n).mark = r.mark
           /\ \A q \in QOSes : Under(r, q) \in Job /\ Under(r, q).mark = r.mark
  <1>1. \A n \in Nodes : Running(r, n) \in Job /\ Running(r, n).mark = r.mark
    BY DEF Running, Job, Places
  <1>2. ASSUME NEW q \in QOSes PROVE Under(r, q) \in Job /\ Under(r, q).mark = r.mark
    <2>1. CASE q = "own"
      <3>1. Under(r, q) = [r EXCEPT !.qos = "own", !.held = TRUE]
        BY <2>1 DEF Under
      <3> QED
        BY <3>1 DEF Job, QOSes
    <2>2. CASE q = "flex"
      <3>1. Under(r, q) = [r EXCEPT !.qos = "flex", !.held = FALSE]
        BY <2>2 DEF Under
      <3> QED
        BY <3>1 DEF Job, QOSes
    <2> QED
      BY <2>1, <2>2 DEF QOSes
  <1> QED
    BY <1>1, <1>2

-----------------------------------------------------------------------------
(* Every action keeps the invariant                                         *)

(* StartJob keeps the invariant.                                             *)
LEMMA StartJobInv == ASSUME IInv, NEW j \in Jobs, StartJob(j) PROVE IInv'
  <1> USE Limits, FaultType DEF IInv, cluster, memory, history
  <1>1. TypeOK'
    <2>1. PICK n \in Nodes : job' = [job EXCEPT ![j] = Running(@, n)]
      BY DEF StartJob
    <2>2. job \in [Jobs -> Job]
      BY DEF TypeOK, Job
    <2>3. job' \in [Jobs -> Job]
      BY <2>1, <2>2, RecordTypes
    <2> QED
      BY <2>3 DEF TypeOK, StartJob, Outdate, Job
  <1>2. ActOK'
    BY DEF TypeOK, ActOK, StartJob, Pending, Outdate, SlurmFits
  <1>3. MarksOK'
    <2>1. PICK n \in Nodes : job' = [job EXCEPT ![j] = Running(@, n)]
      BY DEF StartJob
    <2> QED
      BY <2>1, RecordTypes DEF TypeOK, MarksOK, StartJob, Job
  <1>4. CommandOK'
    BY DEF TypeOK, ActOK, MarksOK, CommandOK, AgesOK, Commands, StartJob, Pending, Outdate, SlurmFits
  <1>5. AgesOK'
    BY DEF TypeOK, ActOK, AgesOK, CommandOK, StartJob, Pending, Outdate, SlurmFits
  <1> QED
    BY <1>1, <1>2, <1>3, <1>4, <1>5

(* EndJob keeps the invariant.                                               *)
LEMMA EndJobInv == ASSUME IInv, NEW j \in Jobs, EndJob(j) PROVE IInv'
  <1> USE Limits, FaultType DEF IInv, cluster, memory, history
  <1>1. TypeOK'
    BY DEF TypeOK, EndJob, Pending, Places, QOSes
  <1>2. ActOK'
    BY DEF TypeOK, ActOK, EndJob, Pending, Places, QOSes
  <1>3. MarksOK'
    BY DEF TypeOK, MarksOK, EndJob, Pending, Places, QOSes
  <1>4. CommandOK'
    BY DEF TypeOK, ActOK, MarksOK, CommandOK, AgesOK, Commands, EndJob, Pending, Places, QOSes
  <1>5. AgesOK'
    BY DEF TypeOK, ActOK, AgesOK, CommandOK, EndJob, Pending, Places, QOSes
  <1> QED
    BY <1>1, <1>2, <1>3, <1>4, <1>5

(* RequeueJob keeps the invariant.                                           *)
LEMMA RequeueJobInv == ASSUME IInv, NEW j \in Jobs, RequeueJob(j) PROVE IInv'
  <1> USE Limits, FaultType DEF IInv, cluster, memory, history
  <1>1. TypeOK'
    <2>0. job[j] \in Job
      BY DEF TypeOK, Job
    <2>1. [job[j] EXCEPT !.at = "pending"] \in Job
      BY <2>0 DEF Job, Places
    <2>2. job' \in [Jobs -> Job]
      BY <2>1 DEF TypeOK, RequeueJob, Job
    <2>3. faults' \in 0 .. FaultBudget
      BY DEF RequeueJob
    <2> QED
      BY <2>2, <2>3 DEF TypeOK, RequeueJob, Job
  <1>2. ActOK'
    BY DEF TypeOK, ActOK, RequeueJob, Places
  <1>3. MarksOK'
    BY DEF TypeOK, MarksOK, RequeueJob, Places
  <1>4. CommandOK'
    <2>1. act.cmd # None => job'[act.cmd.job].at = "gone" \/ job[act.cmd.job].at # "gone"
      BY NoneAssumption DEF TypeOK, ActOK, RequeueJob, Commands
    <2> QED
      BY <2>1, NoneAssumption DEF TypeOK, ActOK, CommandOK, RequeueJob, Commands
  <1>5. AgesOK'
    BY DEF TypeOK, ActOK, AgesOK, CommandOK, RequeueJob, Places
  <1> QED
    BY <1>1, <1>2, <1>3, <1>4, <1>5

(* HoldChanges keeps the invariant.                                          *)
LEMMA HoldChangesInv == ASSUME IInv, NEW j \in Jobs, HoldChanges(j) PROVE IInv'
  <1> USE Limits, FaultType DEF IInv, cluster, memory, history
  <1>1. TypeOK'
    <2>1. job[j] \in Job
      BY DEF TypeOK, Job
    <2>2. job' \in [Jobs -> Job]
      BY <2>1 DEF TypeOK, HoldChanges, Job
    <2> QED
      BY <2>2 DEF TypeOK, HoldChanges, Job
  <1>2. ActOK'
    BY DEF TypeOK, ActOK, HoldChanges, Pending
  <1>3. MarksOK'
    BY DEF TypeOK, MarksOK, HoldChanges, Pending
  <1>4. CommandOK'
    BY DEF TypeOK, ActOK, MarksOK, CommandOK, AgesOK, Commands, HoldChanges, Pending
  <1>5. AgesOK'
    BY DEF TypeOK, ActOK, AgesOK, CommandOK, HoldChanges, Pending
  <1> QED
    BY <1>1, <1>2, <1>3, <1>4, <1>5

(* HandSetsQOS keeps the invariant.                                          *)
LEMMA HandSetsQOSInv == ASSUME IInv, NEW j \in Jobs, HandSetsQOS(j) PROVE IInv'
  <1> USE Limits, FaultType DEF IInv, cluster, memory, history
  <1>1. TypeOK'
    <2>1. PICK q \in QOSes : job' = [job EXCEPT ![j] = Under(@, q)]
      BY DEF HandSetsQOS
    <2>2. job \in [Jobs -> Job]
      BY DEF TypeOK, Job
    <2>3. job' \in [Jobs -> Job]
      BY <2>1, <2>2, RecordTypes
    <2> QED
      BY <2>3 DEF TypeOK, HandSetsQOS, Job
  <1>2. ActOK'
    BY DEF TypeOK, ActOK, HandSetsQOS, Pending, Under, QOSes
  <1>3. MarksOK'
    BY DEF TypeOK, MarksOK, HandSetsQOS, Pending, Under, QOSes
  <1>4. CommandOK'
    BY DEF TypeOK, ActOK, MarksOK, CommandOK, AgesOK, Commands, HandSetsQOS, Pending, Under, QOSes
  <1>5. AgesOK'
    BY DEF TypeOK, ActOK, AgesOK, CommandOK, HandSetsQOS, Pending, Under, QOSes
  <1> QED
    BY <1>1, <1>2, <1>3, <1>4, <1>5

(* LoadChanges keeps the invariant.                                          *)
LEMMA LoadChangesInv == ASSUME IInv, NEW n \in Nodes, LoadChanges(n) PROVE IInv'
  <1> USE Limits, FaultType DEF IInv, cluster, memory, history
  <1>1. TypeOK'
    BY DEF TypeOK, LoadChanges, Outdate
  <1>2. ActOK'
    BY DEF TypeOK, ActOK, LoadChanges, Outdate
  <1>3. MarksOK'
    BY DEF TypeOK, MarksOK, LoadChanges, Outdate
  <1>4. CommandOK'
    BY DEF TypeOK, ActOK, MarksOK, CommandOK, AgesOK, Commands, LoadChanges, Outdate
  <1>5. AgesOK'
    BY DEF TypeOK, ActOK, AgesOK, CommandOK, LoadChanges, Outdate
  <1> QED
    BY <1>1, <1>2, <1>3, <1>4, <1>5

(* NodeChanges keeps the invariant.                                          *)
LEMMA NodeChangesInv == ASSUME IInv, NEW n \in Nodes, NodeChanges(n) PROVE IInv'
  <1> USE Limits, FaultType DEF IInv, cluster, memory, history
  <1>1. TypeOK'
    BY DEF TypeOK, NodeChanges
  <1>2. ActOK'
    BY DEF TypeOK, ActOK, NodeChanges
  <1>3. MarksOK'
    BY DEF TypeOK, MarksOK, NodeChanges
  <1>4. CommandOK'
    BY DEF TypeOK, ActOK, MarksOK, CommandOK, AgesOK, Commands, NodeChanges
  <1>5. AgesOK'
    BY DEF TypeOK, ActOK, AgesOK, CommandOK, NodeChanges
  <1> QED
    BY <1>1, <1>2, <1>3, <1>4, <1>5

(* PollQueue keeps the invariant.                                            *)
LEMMA PollQueueInv == ASSUME IInv, PollQueue PROVE IInv'
  <1> USE Limits, FaultType DEF IInv, cluster, memory, history
  <1>1. TypeOK'
    BY DEF TypeOK, PollQueue, Row, Rows
  <1>2. ActOK'
    BY DEF TypeOK, ActOK, PollQueue, Row, Rows
  <1>3. MarksOK'
    BY DEF TypeOK, MarksOK, PollQueue, Row, Rows
  <1>4. CommandOK'
    BY DEF TypeOK, ActOK, MarksOK, CommandOK, AgesOK, Commands, PollQueue, Row, Rows
  <1>5. AgesOK'
    BY DEF TypeOK, ActOK, AgesOK, CommandOK, PollQueue, Row, Rows
  <1> QED
    BY <1>1, <1>2, <1>3, <1>4, <1>5

(* PollNodes keeps the invariant.                                            *)
LEMMA PollNodesInv == ASSUME IInv, PollNodes PROVE IInv'
  <1> USE Limits, FaultType DEF IInv, cluster, memory, history
  <1>1. TypeOK'
    BY DEF TypeOK, PollNodes
  <1>2. ActOK'
    BY DEF TypeOK, ActOK, PollNodes
  <1>3. MarksOK'
    BY DEF TypeOK, MarksOK, PollNodes
  <1>4. CommandOK'
    BY DEF TypeOK, ActOK, MarksOK, CommandOK, AgesOK, Commands, PollNodes
  <1>5. AgesOK'
    BY DEF TypeOK, ActOK, AgesOK, CommandOK, PollNodes
  <1> QED
    BY <1>1, <1>2, <1>3, <1>4, <1>5

(* ActBegin keeps the invariant.                                             *)
LEMMA ActBeginInv == ASSUME IInv, ActBegin PROVE IInv'
  <1> USE Limits, FaultType DEF IInv, cluster, memory, history
  <1>1. TypeOK'
    BY DEF TypeOK, ActBegin, Idle
  <1>2. ActOK'
    BY DEF TypeOK, ActOK, ActBegin, Idle
  <1>3. MarksOK'
    BY DEF TypeOK, MarksOK, ActBegin, Idle
  <1>4. CommandOK'
    BY DEF TypeOK, ActOK, MarksOK, CommandOK, AgesOK, Commands, ActBegin, Idle
  <1>5. AgesOK'
    BY DEF TypeOK, ActOK, AgesOK, CommandOK, ActBegin, Idle
  <1> QED
    BY <1>1, <1>2, <1>3, <1>4, <1>5

(* Put back, or somebody else's: no command.                                *)
LEMMA PutBackCases ==
    ASSUME IInv, NEW j \in Jobs, PutBack(j)
    PROVE
      /\ act.stage = "unflex" /\ act.cmd = None /\ act'.stage = "unflex" /\ ActOK'
      /\ flexed' = [flexed EXCEPT ![j] = None]
      /\ \/ seen' = seen /\ act'.cmd = None
         \/ /\ seen' = [seen EXCEPT ![j] = 0] /\ j \in marked
            /\ act'.cmd = [job |-> j, qos |-> "own", mark |-> None, node |-> None]
      /\ UNCHANGED <<job, load, usable, up, mode, pend, nodes, disabled, faults,
                     moved, marked, since>>
  <1>1. CASE job[j].mark = None
    <2>1. act' = [act EXCEPT !.todo = @ \ {j}] /\ seen' = seen
      BY <1>1 DEF PutBack, Orig
    <2>2. act'.cmd = act.cmd /\ act'.stage = act.stage /\ ActOK'
      BY <2>1 DEF IInv, ActOK
    <2> QED
      BY <2>1, <2>2 DEF PutBack, cluster, history
  <1>2. CASE job[j].mark # None
    <2> DEFINE c == [job |-> j, qos |-> "own", mark |-> None, node |-> None]
    <2>1. Orig(job[j].mark) = "own" /\ j \in marked
      BY <1>2 DEF Orig, IInv, MarksOK
    <2>2. "own" # None
      BY Limits DEF QOSes
    <2>3. act' = [act EXCEPT !.todo = @ \ {j}, !.cmd = c] /\ seen' = [seen EXCEPT ![j] = 0]
      BY <2>1, <2>2 DEF PutBack, Noted
    <2>4. c \in Commands
      BY DEF Commands, QOSes
    <2>5. act'.cmd = c /\ act'.stage = act.stage /\ ActOK'
      <3> HIDE DEF c
      <3> QED
        BY <2>3, <2>4 DEF IInv, ActOK
    <2> QED
      BY <2>1, <2>3, <2>5 DEF PutBack, cluster, history
  <1> QED
    BY <1>1, <1>2

(* PutBack keeps the invariant.                                              *)
LEMMA PutBackInv == ASSUME IInv, NEW j \in Jobs, PutBack(j) PROVE IInv'
  <1>0. /\ act.stage = "unflex" /\ act.cmd = None /\ act'.stage = "unflex" /\ ActOK'
        /\ flexed' = [flexed EXCEPT ![j] = None]
        /\ \/ seen' = seen /\ act'.cmd = None
           \/ /\ seen' = [seen EXCEPT ![j] = 0] /\ j \in marked
              /\ act'.cmd = [job |-> j, qos |-> "own", mark |-> None, node |-> None]
        /\ UNCHANGED <<job, load, usable, up, mode, pend, nodes, disabled, faults,
                       moved, marked, since>>
    BY PutBackCases
  <1> USE Limits, FaultType DEF IInv, cluster, memory, history
  <1>1. TypeOK'
    BY <1>0 DEF TypeOK, ActOK
  <1>2. ActOK'
    BY <1>0
  <1>3. MarksOK'
    BY <1>0 DEF MarksOK
  <1>4. CommandOK'
    BY <1>0 DEF TypeOK, CommandOK
  <1>5. AgesOK'
    BY <1>0 DEF TypeOK, AgesOK
  <1> QED
    BY <1>1, <1>2, <1>3, <1>4, <1>5

(* PutBackUnread keeps the invariant.                                        *)
LEMMA PutBackUnreadInv == ASSUME IInv, NEW j \in Jobs, PutBackUnread(j) PROVE IInv'
  <1> USE Limits, FaultType DEF IInv, cluster, memory, history
  <1>1. TypeOK'
    BY DEF TypeOK, PutBackUnread
  <1>2. ActOK'
    BY DEF TypeOK, ActOK, PutBackUnread
  <1>3. MarksOK'
    BY DEF TypeOK, MarksOK, PutBackUnread
  <1>4. CommandOK'
    BY DEF TypeOK, ActOK, MarksOK, CommandOK, AgesOK, Commands, PutBackUnread
  <1>5. AgesOK'
    BY DEF TypeOK, ActOK, AgesOK, CommandOK, PutBackUnread
  <1> QED
    BY <1>1, <1>2, <1>3, <1>4, <1>5

(* UsersUnread keeps the invariant.                                          *)
LEMMA UsersUnreadInv == ASSUME IInv, NEW j \in Jobs, UsersUnread(j) PROVE IInv'
  <1> USE Limits, FaultType DEF IInv, cluster, memory, history
  <1>1. TypeOK'
    BY DEF TypeOK, UsersUnread
  <1>2. ActOK'
    BY DEF TypeOK, ActOK, UsersUnread
  <1>3. MarksOK'
    BY DEF TypeOK, MarksOK, UsersUnread
  <1>4. CommandOK'
    BY DEF TypeOK, ActOK, MarksOK, CommandOK, AgesOK, Commands, UsersUnread
  <1>5. AgesOK'
    BY DEF TypeOK, ActOK, AgesOK, CommandOK, UsersUnread
  <1> QED
    BY <1>1, <1>2, <1>3, <1>4, <1>5

(* FlexBegin keeps the invariant.                                            *)
LEMMA FlexBeginInv == ASSUME IInv, FlexBegin PROVE IInv'
  <1> USE Limits, FaultType DEF IInv, cluster, memory, history
  <1>2. ActOK'
    BY DEF TypeOK, ActOK, FlexBegin, StillPending, Idle
  <1>1. TypeOK'
    <2>1. flexed' \in [Jobs -> Claims \cup {None}]
      BY DEF TypeOK, FlexBegin, StillPending
    <2>2. act'.stage \in {"idle", "unflex", "flex"} /\ act'.cmd \in Commands \cup {None}
          /\ act'.todo \subseteq Jobs
      BY <1>2 DEF ActOK
    <2> QED
      BY <2>1, <2>2 DEF TypeOK, FlexBegin
  <1>3. MarksOK'
    BY DEF TypeOK, MarksOK, FlexBegin, StillPending, Idle
  <1>4. CommandOK'
    BY DEF TypeOK, ActOK, MarksOK, CommandOK, AgesOK, Commands, FlexBegin, StillPending, Idle
  <1>5. AgesOK'
    BY DEF TypeOK, ActOK, AgesOK, CommandOK, FlexBegin, StillPending, Idle
  <1> QED
    BY <1>1, <1>2, <1>3, <1>4, <1>5

(* Move keeps the invariant.                                                 *)
LEMMA MoveInv == ASSUME IInv, NEW j \in Jobs, NEW n \in Nodes, Move(j, n) PROVE IInv'
  <1> USE Limits, FaultType DEF IInv, cluster, memory, history
  <1>1. TypeOK'
    BY DEF TypeOK, Move, Taken, Noted, Commands, QOSes, Marks, Ready
  <1>2. ActOK'
    <2> DEFINE c == [job |-> j, qos |-> "flex", node |-> n,
                     mark |-> [from |-> "own", to |-> "flex"]]
    <2>1. c \in Commands
      BY DEF Commands, QOSes, Marks
    <2>2. act' = [act EXCEPT !.todo = @ \ {j}, !.free[n] = @ - Size[j], !.cmd = c]
      BY DEF Move
    <2> HIDE DEF c
    <2> QED
      BY <2>1, <2>2 DEF ActOK
  <1>3. MarksOK'
    BY DEF TypeOK, MarksOK, Move, Taken, Noted, Commands, QOSes, Marks, Ready
  <1>4. CommandOK'
    <2>1. j \in act.todo /\ act.stage = "flex"
      BY DEF Move, Taken, Ready
    <2>2. since[j] = Cooldown
      BY <2>1 DEF TypeOK, AgesOK
    <2>3. act'.cmd = [job |-> j, qos |-> "flex", node |-> n,
                      mark |-> [from |-> "own", to |-> "flex"]]
      BY DEF Move, ActOK
    <2>4. seen'[j] = 0 /\ since' = since
      BY DEF Move, Taken, Noted, TypeOK
    <2>5. [from |-> "own", to |-> "flex"] # None
      BY Limits DEF Marks, QOSes
    <2> QED
      BY <2>2, <2>3, <2>4, <2>5 DEF CommandOK
  <1>5. AgesOK'
    BY DEF TypeOK, ActOK, AgesOK, CommandOK, Move, Taken, Noted, Commands, QOSes, Marks, Ready
  <1> QED
    BY <1>1, <1>2, <1>3, <1>4, <1>5

(* MoveUnread keeps the invariant.                                           *)
LEMMA MoveUnreadInv == ASSUME IInv, NEW j \in Jobs, NEW n \in Nodes, MoveUnread(j, n) PROVE IInv'
  <1> USE Limits, FaultType DEF IInv, cluster, memory, history
  <1>1. TypeOK'
    BY DEF TypeOK, MoveUnread, Taken, Noted
  <1>2. ActOK'
    BY DEF TypeOK, ActOK, MoveUnread, Taken, Noted
  <1>3. MarksOK'
    BY DEF TypeOK, MarksOK, MoveUnread, Taken, Noted
  <1>4. CommandOK'
    BY DEF TypeOK, ActOK, MarksOK, CommandOK, AgesOK, Commands, MoveUnread, Taken, Noted
  <1>5. AgesOK'
    BY DEF TypeOK, ActOK, AgesOK, CommandOK, MoveUnread, Taken, Noted
  <1> QED
    BY <1>1, <1>2, <1>3, <1>4, <1>5

(* ActEnd keeps the invariant.                                               *)
LEMMA ActEndInv == ASSUME IInv, ActEnd PROVE IInv'
  <1> USE Limits, FaultType DEF IInv, cluster, memory, history
  <1>1. TypeOK'
    BY DEF TypeOK, ActEnd, Idle
  <1>2. ActOK'
    BY DEF TypeOK, ActOK, ActEnd, Idle
  <1>3. MarksOK'
    BY DEF TypeOK, MarksOK, ActEnd, Idle
  <1>4. CommandOK'
    BY DEF TypeOK, ActOK, MarksOK, CommandOK, AgesOK, Commands, ActEnd, Idle
  <1>5. AgesOK'
    BY DEF TypeOK, ActOK, AgesOK, CommandOK, ActEnd, Idle
  <1> QED
    BY <1>1, <1>2, <1>3, <1>4, <1>5

(* The job a command lands on.                                              *)
LEMMA LandsOn ==
    ASSUME IInv, CommandLands
    PROVE  /\ act.cmd \in Commands /\ act.cmd.job \in Jobs
           /\ act.cmd.mark = None \/ (act.cmd.mark \in Marks /\ act.cmd.mark.from = "own")
           /\ \E r \in Job : /\ job' = [job EXCEPT ![act.cmd.job] = r]
                            /\ r.mark = IF act.cmd.mark = None THEN job[act.cmd.job].mark
                                        ELSE act.cmd.mark
  <1> DEFINE j == act.cmd.job  r == Landed(job[j], act.cmd)
  <1>1. act.cmd \in Commands /\ j \in Jobs /\ act.cmd.qos \in QOSes
    BY DEF IInv, TypeOK, CommandLands, Commands
  <1>2. act.cmd.mark = None \/ (act.cmd.mark \in Marks /\ act.cmd.mark.from = "own")
    BY <1>1 DEF IInv, CommandOK, CommandLands, Commands, QOSes
  <1>3. job[j] \in Job
    BY <1>1 DEF IInv, TypeOK, Job
  <1>4. job' = [job EXCEPT ![j] = r]
    BY DEF CommandLands
  <1>5. r \in Job /\ r.mark = IF act.cmd.mark = None THEN job[j].mark ELSE act.cmd.mark
    <2> DEFINE s == IF job[j].qos = act.cmd.qos THEN job[j] ELSE Under(job[j], act.cmd.qos)
    <2>1. s \in Job /\ s.mark = job[j].mark
      BY <1>1, <1>3, RecordTypes
    <2>2. r = IF act.cmd.mark = None THEN s ELSE [s EXCEPT !.mark = act.cmd.mark]
      BY DEF Landed
    <2> HIDE DEF s, r
    <2> QED
      BY <1>2, <2>1, <2>2 DEF Job
  <1> HIDE DEF r
  <1> QED
    BY <1>1, <1>2, <1>4, <1>5

(* CommandLands keeps the invariant.                                         *)
LEMMA CommandLandsInv == ASSUME IInv, CommandLands PROVE IInv'
  <1> USE Limits, FaultType DEF IInv, cluster, memory, history
  <1>2. ActOK'
    BY DEF TypeOK, ActOK, CommandLands, CommandDone, Counted, Pending, Under, Recounted, Blocked, Commands, Claims
  <1>1. TypeOK'
    <2>1. job' \in [Jobs -> Job]
      BY LandsOn DEF TypeOK, Job
    <2>2. act.cmd.job \in Jobs
      BY LandsOn
    <2>3. flexed' \in [Jobs -> Claims \cup {None}]
      BY <2>2 DEF TypeOK, CommandLands, CommandDone, Counted, CommandOK, Claims
    <2>4. moved' \in [Jobs -> Nodes \cup {None, "started", "lost"}]
      BY <2>2, LandsOn DEF TypeOK, CommandLands, Recounted, CommandOK, Commands
    <2>5. marked' \subseteq Jobs /\ since' \in [Jobs -> 0 .. Cooldown]
      BY <2>2 DEF TypeOK, CommandLands
    <2>6. act'.stage \in {"idle", "unflex", "flex"} /\ act'.cmd \in Commands \cup {None}
          /\ act'.todo \subseteq Jobs
      BY <1>2 DEF ActOK
    <2> QED
      BY <2>1, <2>3, <2>4, <2>5, <2>6 DEF TypeOK, CommandLands, Job
  <1>3. MarksOK'
    <2> DEFINE j == act.cmd.job
    <2>1. j \in Jobs /\ (act.cmd.mark # None => act.cmd.mark.from = "own")
      BY LandsOn
    <2>2. marked' = IF act.cmd.mark = None THEN marked ELSE marked \cup {j}
      BY DEF CommandLands
    <2>3. job'[j].mark = IF act.cmd.mark = None THEN job[j].mark ELSE act.cmd.mark
      BY <2>1, LandsOn DEF TypeOK
    <2>4. \A k \in Jobs \ {j} : job'[k] = job[k]
      BY LandsOn DEF TypeOK
    <2> HIDE DEF j
    <2> QED
      BY <2>1, <2>2, <2>3, <2>4 DEF MarksOK
  <1>4. CommandOK'
    BY DEF TypeOK, ActOK, MarksOK, CommandOK, AgesOK, Commands, CommandLands, CommandDone, Counted, Pending, Under, Recounted, Blocked, Claims
  <1>5. AgesOK'
    BY DEF TypeOK, ActOK, AgesOK, CommandOK, CommandLands, CommandDone, Counted, Pending, Under, Recounted, Blocked, Commands, Claims
  <1> QED
    BY <1>1, <1>2, <1>3, <1>4, <1>5

(* CommandMissed keeps the invariant.                                        *)
LEMMA CommandMissedInv == ASSUME IInv, CommandMissed PROVE IInv'
  <1> USE Limits, FaultType DEF IInv, cluster, memory, history
  <1>2. ActOK'
    BY DEF TypeOK, ActOK, CommandMissed, CommandDone, Counted, Recounted, Claims, Commands
  <1>1. TypeOK'
    <2>1. act.cmd \in Commands /\ act.cmd.job \in Jobs
      BY DEF TypeOK, CommandMissed, Commands
    <2>2. flexed' \in [Jobs -> Claims \cup {None}]
      BY <2>1 DEF TypeOK, CommandMissed, CommandDone, Counted, CommandOK, Claims
    <2>3. moved' \in [Jobs -> Nodes \cup {None, "started", "lost"}]
      BY <2>1 DEF TypeOK, CommandMissed, Recounted, CommandOK
    <2>4. faults' \in 0 .. FaultBudget
      BY DEF TypeOK, CommandMissed
    <2>5. act'.stage \in {"idle", "unflex", "flex"} /\ act'.cmd \in Commands \cup {None}
          /\ act'.todo \subseteq Jobs
      BY <1>2 DEF ActOK
    <2> QED
      BY <2>2, <2>3, <2>4, <2>5 DEF TypeOK, CommandMissed
  <1>3. MarksOK'
    BY DEF TypeOK, MarksOK, CommandMissed, CommandDone, Counted, Recounted, Claims, Commands
  <1>4. CommandOK'
    BY DEF TypeOK, ActOK, MarksOK, CommandOK, AgesOK, Commands, CommandMissed, CommandDone, Counted, Recounted, Claims
  <1>5. AgesOK'
    BY DEF TypeOK, ActOK, AgesOK, CommandOK, CommandMissed, CommandDone, Counted, Recounted, Claims, Commands
  <1> QED
    BY <1>1, <1>2, <1>3, <1>4, <1>5

(* Start keeps the invariant.                                                *)
LEMMA StartInv == ASSUME IInv, Start PROVE IInv'
  <1> USE Limits, FaultType DEF IInv, cluster, memory, history
  <1>1. TypeOK'
    BY DEF TypeOK, Start
  <1>2. ActOK'
    BY DEF TypeOK, ActOK, Start
  <1>3. MarksOK'
    BY DEF TypeOK, MarksOK, Start
  <1>4. CommandOK'
    BY DEF TypeOK, ActOK, MarksOK, CommandOK, AgesOK, Commands, Start
  <1>5. AgesOK'
    BY DEF TypeOK, ActOK, AgesOK, CommandOK, Start
  <1> QED
    BY <1>1, <1>2, <1>3, <1>4, <1>5

(* Kill keeps the invariant.                                                 *)
LEMMA KillInv == ASSUME IInv, Kill PROVE IInv'
  <1> USE Limits, FaultType DEF IInv, cluster, memory, history
  <1>2. ActOK'
    BY DEF TypeOK, ActOK, Kill, Idle, Rows
  <1>1. TypeOK'
    <2>1. up' \in BOOLEAN /\ mode' \in Modes /\ disabled' \in BOOLEAN
      BY DEF Kill, TypeOK
    <2>2. act'.stage \in {"idle", "unflex", "flex"} /\ act'.cmd \in Commands \cup {None}
          /\ act'.todo \subseteq Jobs
      BY <1>2 DEF ActOK
    <2>3. /\ flexed' \in [Jobs -> Claims \cup {None}] /\ seen' \in [Jobs -> 0 .. Cooldown]
          /\ since' \in [Jobs -> 0 .. Cooldown] /\ pend' \in [Jobs -> Rows]
      BY DEF Kill, Rows
    <2> QED
      BY <2>1, <2>2, <2>3 DEF TypeOK, Kill
  <1>3. MarksOK'
    BY DEF TypeOK, MarksOK, Kill, Idle, Rows
  <1>4. CommandOK'
    BY DEF TypeOK, ActOK, MarksOK, CommandOK, AgesOK, Commands, Kill, Idle, Rows
  <1>5. AgesOK'
    BY DEF TypeOK, ActOK, AgesOK, CommandOK, Kill, Idle, Rows
  <1> QED
    BY <1>1, <1>2, <1>3, <1>4, <1>5

(* Disable keeps the invariant.                                              *)
LEMMA DisableInv == ASSUME IInv, Disable PROVE IInv'
  <1> USE Limits, FaultType DEF IInv, cluster, memory, history
  <1>1. TypeOK'
    BY DEF TypeOK, Disable
  <1>2. ActOK'
    BY DEF TypeOK, ActOK, Disable
  <1>3. MarksOK'
    BY DEF TypeOK, MarksOK, Disable
  <1>4. CommandOK'
    BY DEF TypeOK, ActOK, MarksOK, CommandOK, AgesOK, Commands, Disable
  <1>5. AgesOK'
    BY DEF TypeOK, ActOK, AgesOK, CommandOK, Disable
  <1> QED
    BY <1>1, <1>2, <1>3, <1>4, <1>5

(* Enable keeps the invariant.                                               *)
LEMMA EnableInv == ASSUME IInv, Enable PROVE IInv'
  <1> USE Limits, FaultType DEF IInv, cluster, memory, history
  <1>1. TypeOK'
    BY DEF TypeOK, Enable
  <1>2. ActOK'
    BY DEF TypeOK, ActOK, Enable
  <1>3. MarksOK'
    BY DEF TypeOK, MarksOK, Enable
  <1>4. CommandOK'
    BY DEF TypeOK, ActOK, MarksOK, CommandOK, AgesOK, Commands, Enable
  <1>5. AgesOK'
    BY DEF TypeOK, ActOK, AgesOK, CommandOK, Enable
  <1> QED
    BY <1>1, <1>2, <1>3, <1>4, <1>5

(* Tick keeps the invariant.                                                 *)
LEMMA TickInv == ASSUME IInv, Tick PROVE IInv'
  <1> USE Limits, FaultType DEF IInv, cluster, memory, history
  <1>1. TypeOK'
    <2>1. flexed' \in [Jobs -> Claims \cup {None}]
      <3> SUFFICES ASSUME NEW j \in Jobs, flexed[j] # None
                   PROVE  [flexed[j] EXCEPT !.age = Older(@, RevertAfter)] \in Claims
        BY DEF Tick, TypeOK
      <3>1. flexed[j] \in Claims
        BY DEF TypeOK
      <3> QED
        BY <3>1 DEF Claims, Older
    <2>2. seen' \in [Jobs -> 0 .. Cooldown] /\ since' \in [Jobs -> 0 .. Cooldown]
      BY DEF Tick, TypeOK, Older
    <2> QED
      BY <2>1, <2>2 DEF TypeOK, Tick
  <1>2. ActOK'
    BY DEF TypeOK, ActOK, Tick, Older, Idle, Claims
  <1>3. MarksOK'
    BY DEF TypeOK, MarksOK, Tick, Older, Idle, Claims
  <1>4. CommandOK'
    BY DEF TypeOK, ActOK, MarksOK, CommandOK, AgesOK, Commands, Tick, Older, Idle, Claims
  <1>5. AgesOK'
    BY DEF TypeOK, ActOK, AgesOK, CommandOK, Tick, Older, Idle, Claims
  <1> QED
    BY <1>1, <1>2, <1>3, <1>4, <1>5

-----------------------------------------------------------------------------
(* Each step keeps the invariant.                                            *)
LEMMA NextInv == IInv /\ [Next]_vars => IInv'
  <1> SUFFICES ASSUME IInv, [Next]_vars PROVE IInv'
    OBVIOUS
  <1>1. CASE SlurmNext
    BY <1>1, StartJobInv, EndJobInv, RequeueJobInv, HoldChangesInv, HandSetsQOSInv,
       LoadChangesInv, NodeChangesInv DEF SlurmNext
  <1>2. CASE ActNext
    BY <1>2, ActBeginInv, FlexBeginInv, ActEndInv, CommandLandsInv, CommandMissedInv,
       PutBackInv, PutBackUnreadInv, UsersUnreadInv, MoveInv, MoveUnreadInv DEF ActNext
  <1>3. CASE PollQueue \/ PollNodes \/ Start \/ Kill \/ Disable \/ Enable \/ Tick
    BY <1>3, PollQueueInv, PollNodesInv, StartInv, KillInv, DisableInv, EnableInv, TickInv
  <1>4. CASE UNCHANGED vars
    BY <1>4 DEF vars, cluster, memory, history, IInv, TypeOK, ActOK, MarksOK, CommandOK, AgesOK
  <1> QED
    BY <1>1, <1>2, <1>3, <1>4 DEF Next

(* Every step of the jobs, slurmctld, the act thread and the users keeps    *)
(* the invariant.                                                           *)
THEOREM Invariance == Spec => []IInv
  BY InitInv, NextInv, PTL DEF Spec

(* The jobs, sjpd's notes of them and the command under way are always of   *)
(* their types, whatever fails or is restarted.                             *)
THEOREM TypeCorrect == Spec => []TypeOK
  <1>1. IInv => TypeOK
    BY DEF IInv
  <1> QED
    BY <1>1, Invariance, PTL

-----------------------------------------------------------------------------
(* Only the command that lands takes a job out of the flex QOS for sjpd.    *)
LEMMA LandsToPutBack ==
    ASSUME IInv, Next, NEW j \in Jobs, PutsBack(j)
    PROVE  CommandLands
  <1> USE DEF PutsBack
  <1>1. CASE SlurmNext
    <2>1. act'.cmd = act.cmd
      BY <1>1 DEF SlurmNext, StartJob, EndJob, RequeueJob, HoldChanges, HandSetsQOS,
                  LoadChanges, NodeChanges, Outdate, IInv, ActOK
    <2> QED
      BY <2>1
  <1>2. CASE ActNext
    BY <1>2 DEF ActNext, ActBegin, FlexBegin, ActEnd, CommandMissed, PutBack, PutBackUnread,
                UsersUnread, Move, MoveUnread, cluster
  <1>3. CASE PollQueue \/ PollNodes \/ Start \/ Kill \/ Disable \/ Enable \/ Tick
    BY <1>3 DEF PollQueue, PollNodes, Start, Kill, Disable, Enable, Tick, cluster
  <1> QED
    BY <1>1, <1>2, <1>3 DEF Next

(* daemon.py on jobs without sjp's mark, "put there by someone else: not    *)
(* sjp's to move": unflex takes no job back that no move of sjpd's ever     *)
(* reached, through any number of restarts and failures.                    *)
THEOREM StrangersKept == Spec => StrangersLeftAlone
  <1>1. ASSUME IInv, [Next]_vars
        PROVE  [\A j \in Jobs : PutsBack(j) => j \in marked]_vars
    <2> SUFFICES ASSUME Next, NEW j \in Jobs, PutsBack(j) PROVE j \in marked
      BY <1>1
    <2>1. CommandLands /\ act.cmd # None /\ act.cmd.job = j
      BY <1>1, LandsToPutBack DEF PutsBack
    <2>2. act.cmd \in Commands /\ job \in [Jobs -> Job]
      BY <1>1, LandsOn, <2>1 DEF IInv, TypeOK, Job
    <2>3. act.cmd.qos = "own"
      <3> SUFFICES ASSUME act.cmd.qos = "flex" PROVE FALSE
        BY <2>2 DEF Commands, QOSes
      <3>1. job'[j] = Landed(job[j], act.cmd)
        BY <2>1, <2>2 DEF CommandLands
      <3>2. Landed(job[j], act.cmd).qos = job[j].qos
        BY <2>2 DEF Landed, Job, PutsBack
      <3> QED
        BY <3>1, <3>2 DEF PutsBack
    <2>4. job[j].at = "pending"
      BY <2>1 DEF CommandLands, Pending
    <2> QED
      BY <1>1, <2>1, <2>3, <2>4 DEF IInv, CommandOK
  <1> QED
    BY <1>1, Invariance, PTL DEF Spec, StrangersLeftAlone

(* A job is moved by a command that lands.                                   *)
LEMMA MovesByCommand ==
    ASSUME IInv, Next, NEW j \in Jobs, Moves(j)
    PROVE  CommandLands /\ act.cmd # None /\ act.cmd.job = j
  <1> USE DEF Moves
  <1>1. moved \in [Jobs -> Nodes \cup {None, "started", "lost"}] /\ None \notin Nodes
    BY Limits DEF IInv, TypeOK
  <1>2. CommandLands
    <2>1. CASE SlurmNext
      BY <2>1, <1>1 DEF SlurmNext, StartJob, EndJob, RequeueJob, HoldChanges, HandSetsQOS,
                  LoadChanges, NodeChanges, history
    <2>2. CASE ActNext
      <3>1. CASE CommandMissed
        BY <3>1, <1>1 DEF CommandMissed, Recounted
      <3>2. CASE \E k \in Jobs : PutBackUnread(k)
        BY <3>2, <1>1 DEF PutBackUnread
      <3> QED
        BY <2>2, <3>1, <3>2 DEF ActNext, ActBegin, FlexBegin, ActEnd, PutBack,
              UsersUnread, Move, MoveUnread, history
    <2>3. CASE PollQueue \/ PollNodes \/ Start \/ Kill \/ Disable \/ Enable \/ Tick
      BY <2>3 DEF PollQueue, PollNodes, Start, Kill, Disable, Enable, Tick, history
    <2> QED
      BY <2>1, <2>2, <2>3 DEF Next
  <1>3. act.cmd # None /\ act.cmd.job = j
    BY <1>1, <1>2 DEF CommandLands
  <1> QED
    BY <1>2, <1>3

(* flex_seen keeps a job from going back and forth: a move and a return by  *)
(* the same run of sjpd, or two moves, are a cooldown apart.                *)
THEOREM NoPingPongs == Spec => NoPingPong
  <1>1. ASSUME IInv, [Next]_vars
        PROVE  [\A j \in Jobs : Moves(j) => since[j] >= Cooldown]_vars
    <2> SUFFICES ASSUME Next, NEW j \in Jobs, Moves(j) PROVE since[j] >= Cooldown
      BY <1>1
    <2> USE DEF Moves
    <2>1. moved \in [Jobs -> Nodes \cup {None, "started", "lost"}] /\ None \notin Nodes
      BY <1>1, Limits DEF IInv, TypeOK
    <2>2. CommandLands /\ act.cmd.job = j
      BY <1>1, MovesByCommand
    <2>3. act.cmd # None /\ act.cmd \in Commands /\ since[act.cmd.job] \in 0 .. Cooldown
      BY <1>1, <2>2, LandsOn DEF CommandLands, IInv, TypeOK
    <2>4. act.cmd.qos = "flex"
      <3> SUFFICES ASSUME act.cmd.qos = "own" PROVE FALSE
        BY <2>3 DEF Commands, QOSes
      <3>1. act.cmd.node = None
        BY <1>1, <2>3 DEF IInv, CommandOK
      <3> QED
        BY <2>1, <2>2, <3>1 DEF CommandLands, Recounted
    <2> QED
      BY <1>1, <2>2, <2>3, <2>4, Limits DEF IInv, CommandOK
  <1> QED
    BY <1>1, Invariance, PTL DEF Spec, NoPingPong

-----------------------------------------------------------------------------
(* Behind MovesFit.  A job that counts against a node is pending in the flex *)
(* QOS, with sjp's mark.                                                     *)
CountedOK ==
    \A k \in Jobs : moved[k] \in Nodes =>
        Pending(k) /\ job[k].qos = "flex" /\ job[k].mark # None

(* The act thread is at work only while sjpd runs, on the command of its     *)
(* stage; sjpd claims space only while it runs in enforce mode; and free     *)
(* space is a number.                                                        *)
FreeMap(free) == DOMAIN free \subseteq Nodes /\ \A n \in DOMAIN free : free[n] \in Int
StageOK ==
    /\ act.stage # "idle" => up /\ FreeMap(act.free)
    /\ act.cmd # None => act.stage = IF act.cmd.qos = "flex" THEN "flex" ELSE "unflex"
    /\ \A k \in Jobs : flexed[k] # None => up /\ mode = "enforce"
    /\ nodes # None => /\ nodes = [free |-> nodes.free, fresh |-> nodes.fresh]
                        /\ FreeMap(nodes.free)

(* Of every job that counts against a node, sjpd has the claim, and so had   *)
(* the pass under way when it began; or it is putting the job back; or it    *)
(* has forgotten the job, in a restart, and moves no other before it has put *)
(* this one back: it does not know of a held job yet, or of this one too.    *)
Claimed(k) ==
    /\ flexed[k] # None /\ flexed[k].node = moved[k]
    /\ pend[k] # "none"
    /\ act.stage = "unflex" => k \in act.live

Returning(k) == act.cmd # None /\ act.cmd.qos = "own" /\ act.cmd.job = k

Forgotten(k) ==
    /\ flexed[k] = None
    /\ pend[k] = "flex" \/ \A i \in Jobs : pend[i] = "none"
    /\ act.stage = "unflex" => k \in act.todo \/ act.held = {}
    /\ act.stage = "flex" => act.todo = {} /\ act.cmd = None

AccountedFor == \A k \in Jobs : moved[k] \in Nodes => Claimed(k) \/ Returning(k) \/ Forgotten(k)

(* What the act thread takes for free is free, beside the jobs that count    *)
(* against the node and the one it is moving there.                          *)
Counting(n) == {k \in Jobs : moved[k] = n}
Committed(n) == Counting(n) \cup {k \in Jobs : act.cmd # None /\ act.cmd.job = k
                                               /\ act.cmd.node = n}
FreeIsFree ==
    /\ nodes # None /\ nodes.fresh =>
          \A n \in DOMAIN nodes.free : nodes.free[n] <= SlurmFree(n)
    /\ act.stage = "unflex" /\ act.fresh =>
          \A n \in DOMAIN act.free : act.free[n] <= SlurmFree(n)
    /\ act.stage = "flex" /\ act.fresh /\ (act.todo # {} \/ act.cmd # None) =>
          \A n \in DOMAIN act.free : act.free[n] + Total_(Size, Committed(n)) <= SlurmFree(n)
    /\ act.cmd # None /\ act.cmd.qos = "flex" =>
          act.cmd.node \in DOMAIN act.free /\ act.free[act.cmd.node] >= 0

FInv == CountedOK /\ StageOK /\ AccountedFor /\ FreeIsFree

(* Sums of sizes are naturals, larger for more jobs.                         *)
LEMMA SizesAdd ==
    ASSUME NEW S \in SUBSET Jobs, NEW T \in SUBSET Jobs
    PROVE  /\ IsFiniteSet(S) /\ Total_(Size, S) \in Nat
           /\ S \subseteq T => Total_(Size, S) <= Total_(Size, T)
           /\ \A j \in Jobs : Total_(Size, S \cup {j}) <= Total_(Size, S) + Size[j]
  <1>1. IsFiniteSet(S) /\ IsFiniteSet(T)
    BY ConstantsAssumption, FS_Subset
  <1>2. \A j \in Jobs : Size[j] \in Nat /\ Size[j] \in Int /\ Size[j] <= Size[j]
    BY ConstantsAssumption
  <1>3. \A R : Total_(Size, R) = Sum(Size, R)
    BY DEF Total_, Sum
  <1>4. Sum(Size, S) \in Nat
    BY <1>1, <1>2, SumNat
  <1>5. ASSUME S \subseteq T PROVE Sum(Size, S) <= Sum(Size, T)
    BY <1>1, <1>2, <1>5, SumLeq
  <1>6. ASSUME NEW j \in Jobs PROVE Sum(Size, S \cup {j}) <= Sum(Size, S) + Size[j]
    <2>1. CASE j \in S
      <3>1. S \cup {j} = S
        BY <2>1
      <3>2. Sum(Size, S \cup {j}) = Sum(Size, S)
        BY <3>1
      <3>3. Size[j] \in Nat
        BY <1>2
      <3> QED
        BY <1>4, <3>2, <3>3
    <2>2. CASE j \notin S
      <3>1. Sum(Size, S \cup {j}) = Size[j] + Sum(Size, S)
        BY <1>1, <1>2, <2>2, SumAdd
      <3> QED
        BY <1>2, <1>4, <3>1
    <2> QED
      BY <2>1, <2>2
  <1> QED
    BY <1>1, <1>3, <1>4, <1>5, <1>6

(* What is free of a node is a number.                                       *)
LEMMA SlurmFreeType == ASSUME TypeOK PROVE \A n \in Nodes : SlurmFree(n) \in Int
  <1>1. \A n \in Nodes : Total[n] \in Nat /\ load[n] \in Nat
    BY ConstantsAssumption DEF TypeOK
  <1>2. \A n \in Nodes : Total_(Size, {j \in Jobs : job[j].at = n}) \in Nat
    BY SizesAdd
  <1> QED
    BY <1>1, <1>2 DEF SlurmFree

(* A node has no less free when no job has come to it and its load is the    *)
(* same.                                                                     *)
LEMMA SlurmFreeGrows ==
    ASSUME TypeOK, TypeOK', load' = load, NEW n \in Nodes,
           \A j \in Jobs : job'[j].at = n => job[j].at = n
    PROVE  SlurmFree(n) <= SlurmFree(n)' /\ SlurmFree(n) \in Int /\ SlurmFree(n)' \in Int
  <1> DEFINE S == {j \in Jobs : job[j].at = n}
             T == {j \in Jobs : job'[j].at = n}
  <1>1. T \subseteq S /\ T \in SUBSET Jobs /\ S \in SUBSET Jobs
    OBVIOUS
  <1>2. Total_(Size, T) <= Total_(Size, S) /\ Total_(Size, T) \in Nat /\ Total_(Size, S) \in Nat
    <2> HIDE DEF S, T
    <2> QED
      BY <1>1, SizesAdd
  <1>3. Total[n] \in Nat /\ load[n] \in Nat
    BY ConstantsAssumption DEF TypeOK
  <1>4. /\ SlurmFree(n) = Total[n] - load[n] - Total_(Size, S)
        /\ SlurmFree(n)' = Total[n] - load[n] - Total_(Size, T)
    BY DEF SlurmFree
  <1> QED
    BY <1>2, <1>3, <1>4

(* Free space that is enough stays enough when less is committed and more is *)
(* free.                                                                     *)
LEMMA FreeKept ==
    ASSUME NEW f \in Int, NEW S \in SUBSET Jobs, NEW T \in SUBSET Jobs, T \subseteq S,
           NEW a \in Int, NEW b \in Int, a <= b, f + Total_(Size, S) <= a
    PROVE  f + Total_(Size, T) <= b
  <1>1. Total_(Size, T) <= Total_(Size, S) /\ Total_(Size, T) \in Nat /\ Total_(Size, S) \in Nat
    BY SizesAdd
  <1> QED
    BY <1>1

(* It holds initially.                                                       *)
LEMMA InitFInv == Init => FInv
  <1> SUFFICES ASSUME Init PROVE FInv
    OBVIOUS
  <1>1. /\ \A k \in Jobs : moved[k] \notin Nodes /\ flexed[k] = None
        /\ act.stage = "idle" /\ act.cmd = None /\ nodes = None
    BY Limits DEF Init, Idle
  <1> QED
    BY <1>1 DEF FInv, CountedOK, StageOK, AccountedFor, FreeIsFree

(* What Slurm and the users do to a job other than start it leaves alone the *)
(* jobs that count against a node, or they do not count any more.            *)
JobsKept ==
    /\ \A k \in Jobs : moved'[k] \in Nodes =>
          moved'[k] = moved[k] /\ job'[k].at = job[k].at /\ job'[k].qos = job[k].qos
          /\ job'[k].mark = job[k].mark
    /\ \A k \in Jobs : job'[k].at \in Nodes => job'[k].at = job[k].at

(* That keeps the invariant.                                                 *)
LEMMA JobsKeptFInv ==
    ASSUME IInv, IInv', FInv, JobsKept, UNCHANGED <<load, up, mode, pend, nodes, flexed, act>>
    PROVE  FInv'
  <1>1. CountedOK'
    BY DEF FInv, CountedOK, JobsKept, Pending
  <1>2. StageOK'
    BY DEF FInv, StageOK, FreeMap
  <1>3. AccountedFor'
    BY DEF FInv, AccountedFor, JobsKept, Claimed, Returning, Forgotten
  <1>4. FreeIsFree'
    <2>1. \A n \in Nodes : /\ SlurmFree(n) <= SlurmFree(n)'
                           /\ SlurmFree(n) \in Int /\ SlurmFree(n)' \in Int
      BY SlurmFreeGrows DEF JobsKept, IInv
    <2>2. \A n \in Nodes : /\ Committed(n) \in SUBSET Jobs /\ Committed(n)' \in SUBSET Jobs
                           /\ Committed(n)' \subseteq Committed(n)
      BY DEF Committed, Counting, JobsKept
    <2>3. nodes # None /\ nodes.fresh =>
             \A n \in DOMAIN nodes.free : nodes.free[n] <= SlurmFree(n)'
      BY <2>1 DEF FInv, FreeIsFree, StageOK, FreeMap
    <2>4. act.stage = "unflex" /\ act.fresh =>
             \A n \in DOMAIN act.free : act.free[n] <= SlurmFree(n)'
      BY <2>1 DEF FInv, FreeIsFree, StageOK, FreeMap
    <2>5. act.stage = "flex" /\ act.fresh /\ (act.todo # {} \/ act.cmd # None) =>
             \A n \in DOMAIN act.free :
                act.free[n] + Total_(Size, Committed(n)') <= SlurmFree(n)'
      BY <2>1, <2>2, FreeKept DEF FInv, FreeIsFree, StageOK, FreeMap
    <2> QED
      BY <2>3, <2>4, <2>5 DEF FInv, FreeIsFree
  <1> QED
    BY <1>1, <1>2, <1>3, <1>4 DEF FInv

(* When something starts, what was read of the nodes is not fresh any more.  *)
LEMMA OutdatedFInv ==
    ASSUME IInv, FInv, Outdate, UNCHANGED <<up, mode, pend, flexed>>,
           \A k \in Jobs : moved'[k] \in Nodes => moved'[k] = moved[k] /\ job'[k] = job[k]
    PROVE  FInv'
  <1>1. /\ act'.stage = act.stage /\ act'.todo = act.todo /\ act'.held = act.held
        /\ act'.live = act.live /\ act'.free = act.free /\ act'.cmd = act.cmd
        /\ act'.fresh = FALSE
    BY DEF Outdate, IInv, ActOK
  <1>2. /\ nodes' # None => nodes # None /\ nodes'.free = nodes.free /\ nodes'.fresh = FALSE
        /\ nodes' # None => nodes' = [free |-> nodes'.free, fresh |-> nodes'.fresh]
    BY DEF Outdate, Outdated, FInv, StageOK
  <1>3. CountedOK'
    BY DEF FInv, CountedOK, Pending
  <1>4. StageOK'
    BY <1>1, <1>2 DEF FInv, StageOK, FreeMap
  <1>5. AccountedFor'
    BY <1>1 DEF FInv, AccountedFor, Claimed, Returning, Forgotten
  <1>6. FreeIsFree'
    BY <1>1, <1>2 DEF FInv, FreeIsFree
  <1> QED
    BY <1>3, <1>4, <1>5, <1>6 DEF FInv

(* So do all steps of Slurm and the users.                                   *)
LEMMA SlurmFInv == ASSUME IInv, IInv', FInv, SlurmNext PROVE FInv'
  <1> USE Limits
  <1>0. /\ job \in [Jobs -> Job] /\ moved \in [Jobs -> Nodes \cup {None, "started", "lost"}]
        /\ Nodes \cap {"pending", "gone", "started", "lost"} = {}
    BY NoneAssumption DEF IInv, TypeOK, Job
  <1>1. ASSUME NEW j \in Jobs, StartJob(j) PROVE FInv'
    <2>1. moved'[j] \notin Nodes
      BY <1>0, <1>1 DEF StartJob
    <2>2. \A k \in Jobs \ {j} : moved'[k] = moved[k] /\ job'[k] = job[k]
      BY <1>0, <1>1 DEF StartJob
    <2> QED
      BY <1>1, <2>1, <2>2, OutdatedFInv DEF StartJob
  <1>2. ASSUME NEW n \in Nodes, LoadChanges(n) PROVE FInv'
    BY <1>2, OutdatedFInv DEF LoadChanges, history
  <1>3. ASSUME NEW j \in Jobs, EndJob(j) PROVE FInv'
    <2>1. moved'[j] = None /\ job'[j].at = "gone"
      BY <1>0, <1>3 DEF EndJob
    <2>2. \A k \in Jobs \ {j} : moved'[k] = moved[k] /\ job'[k] = job[k]
      BY <1>0, <1>3 DEF EndJob
    <2>3. JobsKept
      BY <1>0, <2>1, <2>2 DEF JobsKept
    <2> QED
      BY <1>3, <2>3, JobsKeptFInv DEF EndJob, memory
  <1>4. ASSUME NEW j \in Jobs, RequeueJob(j) PROVE FInv'
    <2>1. job'[j].at = "pending" /\ moved'[j] = moved[j] /\ moved[j] \notin Nodes
      BY <1>0, <1>4 DEF RequeueJob, history, FInv, CountedOK, Pending, Job
    <2>2. \A k \in Jobs \ {j} : moved'[k] = moved[k] /\ job'[k] = job[k]
      BY <1>0, <1>4 DEF RequeueJob, history
    <2>3. JobsKept
      BY <1>0, <2>1, <2>2 DEF JobsKept
    <2> QED
      BY <1>4, <2>3, JobsKeptFInv DEF RequeueJob, memory
  <1>5. ASSUME NEW j \in Jobs, HoldChanges(j) PROVE FInv'
    <2>1. \A k \in Jobs : /\ moved'[k] = moved[k] /\ job'[k].at = job[k].at
                          /\ job'[k].qos = job[k].qos /\ job'[k].mark = job[k].mark
      BY <1>0, <1>5 DEF HoldChanges, history, Job
    <2>2. JobsKept
      BY <2>1 DEF JobsKept
    <2> QED
      BY <1>5, <2>2, JobsKeptFInv DEF HoldChanges, memory
  <1>6. ASSUME NEW j \in Jobs, HandSetsQOS(j) PROVE FInv'
    <2>1. moved'[j] = None /\ job'[j].at = job[j].at
      BY <1>0, <1>6 DEF HandSetsQOS, Under, Job
    <2>2. \A k \in Jobs \ {j} : moved'[k] = moved[k] /\ job'[k] = job[k]
      BY <1>0, <1>6 DEF HandSetsQOS
    <2>3. JobsKept
      BY <2>1, <2>2 DEF JobsKept
    <2> QED
      BY <1>6, <2>3, JobsKeptFInv DEF HandSetsQOS, memory
  <1>7. ASSUME NEW n \in Nodes, NodeChanges(n) PROVE FInv'
    <2>1. JobsKept
      BY <1>7 DEF NodeChanges, history, JobsKept
    <2> QED
      BY <1>7, <2>1, JobsKeptFInv DEF NodeChanges, memory
  <1> QED
    BY <1>1, <1>2, <1>3, <1>4, <1>5, <1>6, <1>7 DEF SlurmNext

(* A poll of the queue finds the jobs that count in the flex QOS.            *)
LEMMA PollQueueFInv == ASSUME IInv, FInv, PollQueue PROVE FInv'
  <1>1. /\ UNCHANGED <<job, load, usable, up, mode, nodes, flexed, act, moved>>
        /\ \A k \in Jobs : pend'[k] = Row(k)
    BY DEF PollQueue, cluster, history
  <1>2. ASSUME NEW k \in Jobs, moved[k] \in Nodes PROVE pend'[k] = "flex"
    BY <1>1, <1>2 DEF FInv, CountedOK, Row
  <1>3. AccountedFor'
    BY <1>1, <1>2 DEF FInv, AccountedFor, Claimed, Returning, Forgotten
  <1>4. CountedOK' /\ StageOK'
    BY <1>1 DEF FInv, CountedOK, Pending, StageOK, FreeMap
  <1>5. FreeIsFree'
    BY <1>1 DEF FInv, FreeIsFree, Committed, Counting, SlurmFree
  <1> QED
    BY <1>3, <1>4, <1>5 DEF FInv

(* A poll of the nodes finds what is free.                                   *)
LEMMA PollNodesFInv == ASSUME IInv, FInv, PollNodes PROVE FInv'
  <1>1. /\ UNCHANGED <<job, load, usable, up, mode, pend, flexed, act, moved>>
        /\ nodes' = [free |-> [n \in usable |-> SlurmFree(n)], fresh |-> TRUE]
        /\ usable \subseteq Nodes
    BY DEF PollNodes, cluster, history, IInv, TypeOK
  <1>2. AccountedFor' /\ CountedOK'
    BY <1>1 DEF FInv, AccountedFor, Claimed, Returning, Forgotten, CountedOK, Pending
  <1>3. /\ DOMAIN nodes'.free = usable /\ nodes'.free = [n \in usable |-> SlurmFree(n)]
        /\ \A n \in usable : nodes'.free[n] = SlurmFree(n) /\ SlurmFree(n) \in Int
        /\ nodes' = [free |-> nodes'.free, fresh |-> nodes'.fresh]
    BY <1>1, SlurmFreeType DEF IInv
  <1>4. FreeMap(nodes'.free)
    BY <1>1, <1>3 DEF FreeMap
  <1>5. StageOK'
    BY <1>1, <1>3, <1>4 DEF FInv, StageOK, FreeMap
  <1>6. \A n \in Nodes : SlurmFree(n)' = SlurmFree(n)
    BY <1>1 DEF SlurmFree
  <1>7. \A n \in DOMAIN nodes'.free : nodes'.free[n] <= SlurmFree(n)'
    BY <1>1, <1>3, <1>6
  <1>8. \A n \in Nodes : Committed(n)' = Committed(n)
    BY <1>1 DEF Committed, Counting
  <1>9. FreeIsFree'
    BY <1>1, <1>6, <1>7, <1>8 DEF FInv, FreeIsFree, StageOK, FreeMap
  <1> QED
    BY <1>2, <1>5, <1>9 DEF FInv

(* A pass begins: every job that counts is in the queue it has read, to be   *)
(* put back if sjpd has no claim for it; or it has read of no held job.      *)
LEMMA ActBeginFInv == ASSUME IInv, FInv, ActBegin PROVE FInv'
  <1>1. /\ UNCHANGED <<job, load, usable, up, mode, pend, nodes, flexed, moved>>
        /\ up /\ act = Idle /\ nodes # None
        /\ act'.stage = "unflex" /\ act'.cmd = None
        /\ act'.todo = {j \in Jobs : pend[j] = "flex" /\ ~Waiting(j)}
        /\ act'.held = {j \in Jobs : pend[j] = "held"}
        /\ act'.live = {j \in Jobs : pend[j] # "none"}
        /\ act'.free = nodes.free /\ act'.fresh = nodes.fresh
    BY DEF ActBegin, cluster, memory, history
  <1>2. ASSUME NEW k \in Jobs, moved[k] \in Nodes PROVE Claimed(k)' \/ Forgotten(k)'
    <2>1. Claimed(k) \/ Forgotten(k)
      BY <1>1, <1>2 DEF FInv, AccountedFor, Returning, Idle
    <2>2. CASE Claimed(k)
      BY <1>1, <2>2 DEF Claimed
    <2>3. CASE Forgotten(k)
      BY <1>1, <2>3 DEF Forgotten, Waiting
    <2> QED
      BY <2>1, <2>2, <2>3
  <1>3. AccountedFor'
    BY <1>1, <1>2 DEF AccountedFor
  <1>4. CountedOK' /\ StageOK'
    BY <1>1 DEF FInv, CountedOK, Pending, StageOK, FreeMap
  <1>5. FreeIsFree'
    BY <1>1 DEF FInv, FreeIsFree, SlurmFree
  <1> QED
    BY <1>3, <1>4, <1>5 DEF FInv

(* A job that counts and is put back has a mark, and a command on its way.   *)
LEMMA PutBackFInv == ASSUME IInv, FInv, NEW j \in Jobs, PutBack(j) PROVE FInv'
  <1>1. /\ UNCHANGED <<job, load, usable, up, mode, pend, nodes, moved>>
        /\ act.stage = "unflex" /\ act.cmd = None
        /\ \A k \in Jobs \ {j} : flexed'[k] = flexed[k]
        /\ flexed'[j] = None
    BY DEF PutBack, cluster, history, IInv, TypeOK
  <1>2. /\ act'.stage = "unflex" /\ act'.held = act.held /\ act'.live = act.live
        /\ act'.free = act.free /\ act'.fresh = act.fresh /\ act'.todo = act.todo \ {j}
        /\ \/ act'.cmd = None /\ job[j].mark = None
           \/ act'.cmd = [job |-> j, qos |-> "own", mark |-> None, node |-> None]
    <2>1. Orig(job[j].mark) = None => job[j].mark = None
      BY Limits DEF Orig, IInv, MarksOK, QOSes
    <2>2. Orig(job[j].mark) # None => Orig(job[j].mark) = "own"
      BY DEF Orig, IInv, MarksOK
    <2> QED
      BY <2>1, <2>2, <1>1 DEF PutBack, IInv, ActOK
  <1>3. ASSUME NEW k \in Jobs, moved[k] \in Nodes
        PROVE  Claimed(k)' \/ Returning(k)' \/ Forgotten(k)'
    <2>1. CASE k = j
      <3>1. act'.cmd = [job |-> j, qos |-> "own", mark |-> None, node |-> None]
        BY <1>2, <1>3, <2>1 DEF FInv, CountedOK
      <3>2. [job |-> j, qos |-> "own", mark |-> None, node |-> None] # None
        BY Limits DEF Commands, QOSes
      <3> QED
        BY <2>1, <3>1, <3>2 DEF Returning
    <2>2. CASE k # j /\ Claimed(k)
      BY <1>1, <1>2, <2>2 DEF Claimed
    <2>3. CASE k # j /\ Forgotten(k)
      BY <1>1, <1>2, <2>3 DEF Forgotten
    <2> QED
      BY <1>1, <1>3, <2>1, <2>2, <2>3 DEF FInv, AccountedFor, Returning
  <1>4. AccountedFor'
    BY <1>1, <1>3 DEF AccountedFor
  <1>5. CountedOK' /\ StageOK'
    BY <1>1, <1>2 DEF FInv, CountedOK, Pending, StageOK, FreeMap
  <1>6. FreeIsFree'
    BY <1>1, <1>2 DEF FInv, FreeIsFree, SlurmFree
  <1> QED
    BY <1>4, <1>5, <1>6 DEF FInv

(* One whose comment cannot be read has a claim still, or does not count any *)
(* more.                                                                     *)
LEMMA PutBackUnreadFInv == ASSUME IInv, FInv, NEW j \in Jobs, PutBackUnread(j) PROVE FInv'
  <1>1. /\ UNCHANGED <<job, load, usable, up, mode, pend, nodes, flexed>>
        /\ act.stage = "unflex" /\ act.cmd = None
        /\ \A k \in Jobs \ {j} : moved'[k] = moved[k]
        /\ moved'[j] \in Nodes => moved'[j] = moved[j] /\ flexed[j] # None
    BY NoneAssumption, Limits DEF PutBackUnread, cluster, memory, IInv, TypeOK
  <1>2. /\ act'.stage = "unflex" /\ act'.held = act.held /\ act'.live = act.live
        /\ act'.free = act.free /\ act'.fresh = act.fresh /\ act'.todo = act.todo \ {j}
        /\ act'.cmd = None
    BY <1>1 DEF PutBackUnread, IInv, ActOK
  <1>3. AccountedFor'
    BY <1>1, <1>2 DEF FInv, AccountedFor, Claimed, Returning, Forgotten
  <1>4. CountedOK' /\ StageOK'
    BY <1>1, <1>2 DEF FInv, CountedOK, Pending, StageOK, FreeMap
  <1>5. FreeIsFree'
    BY <1>1, <1>2 DEF FInv, FreeIsFree, SlurmFree
  <1> QED
    BY <1>3, <1>4, <1>5 DEF FInv

(* Space is set aside for every job that counts, when the pass goes on to    *)
(* move others.                                                              *)
LEMMA FlexBeginFInv == ASSUME IInv, FInv, FlexBegin PROVE FInv'
  <1>1. /\ UNCHANGED <<job, load, usable, up, mode, pend, nodes, moved>>
        /\ act.stage = "unflex" /\ act.cmd = None /\ act.todo = {}
        /\ \A k \in Jobs : flexed'[k] = IF k \in act.live THEN flexed[k] ELSE None
    BY DEF FlexBegin, cluster, history, StillPending
  <1>2. /\ act'.cmd = None
        /\ \/ act'.stage = "idle"
           \/ /\ act'.stage = "flex" /\ act'.todo \subseteq act.held
              /\ act'.free = Unclaimed(act.free, flexed') /\ act'.fresh = act.fresh
    BY <1>1 DEF FlexBegin, IInv, ActOK, Idle
  <1>3. FreeMap(act.free) /\ up
    BY <1>1 DEF FInv, StageOK
  <1> DEFINE Set(n) == {j \in Jobs : flexed'[j] # None /\ flexed'[j].node = n}
  <1>4. ASSUME act'.stage = "flex"
        PROVE  /\ DOMAIN act'.free = DOMAIN act.free
               /\ \A n \in DOMAIN act.free : act'.free[n] = act.free[n] - Total_(Size, Set(n))
    BY <1>2, <1>4 DEF Unclaimed
  <1>5. \A n : Set(n) \in SUBSET Jobs /\ Total_(Size, Set(n)) \in Nat
    BY SizesAdd
  <1>6. ASSUME act'.stage = "flex" PROVE FreeMap(act'.free)
    <2>1. ASSUME NEW n \in DOMAIN act.free PROVE act'.free[n] \in Int
      <3>1. act.free[n] \in Int /\ Total_(Size, Set(n)) \in Nat
        BY <1>3, <1>5 DEF FreeMap
      <3>2. act'.free[n] = act.free[n] - Total_(Size, Set(n))
        BY <1>4, <1>6
      <3> HIDE DEF Set
      <3> QED
        BY <3>1, <3>2
    <2>2. DOMAIN act'.free = DOMAIN act.free
      BY <1>4, <1>6
    <2> HIDE DEF Set
    <2> QED
      BY <1>3, <2>1, <2>2 DEF FreeMap
  <1>7. ASSUME NEW k \in Jobs, moved[k] \in Nodes
        PROVE  /\ Claimed(k)' \/ Forgotten(k)'
               /\ Claimed(k)' \/ act.held = {}
    <2>1. CASE Claimed(k)
      BY <1>1, <1>2, <2>1 DEF Claimed
    <2>2. CASE Forgotten(k)
      BY <1>1, <1>2, <2>2 DEF Forgotten
    <2> QED
      BY <1>1, <1>7, <2>1, <2>2 DEF FInv, AccountedFor, Returning
  <1>8. AccountedFor'
    BY <1>1, <1>7 DEF AccountedFor
  <1>9. CountedOK' /\ StageOK'
    BY <1>1, <1>2, <1>3, <1>6 DEF FInv, CountedOK, Pending, StageOK, FreeMap
  <1>10. ASSUME act'.stage = "flex", act'.fresh, act'.todo # {}, NEW n \in DOMAIN act'.free
         PROVE  act'.free[n] + Total_(Size, Committed(n)') <= SlurmFree(n)'
    <2>1. n \in Nodes /\ n \in DOMAIN act.free /\ act.free[n] \in Int
      BY <1>3, <1>4, <1>10 DEF FreeMap
    <2>2. act.free[n] <= SlurmFree(n) /\ SlurmFree(n) \in Int /\ SlurmFree(n)' = SlurmFree(n)
      BY <1>1, <1>2, <1>10, <2>1, SlurmFreeType DEF FInv, FreeIsFree, SlurmFree, IInv
    <2>3. Committed(n)' \subseteq Set(n) /\ Committed(n)' \in SUBSET Jobs
      <3>1. act.held # {}
        BY <1>2, <1>10
      <3>2. \A k \in Jobs : moved[k] = n => Claimed(k)'
        BY <1>7, <2>1, <3>1
      <3> QED
        BY <1>1, <1>2, <3>2 DEF Committed, Counting, Claimed
    <2>4. Total_(Size, Committed(n)') <= Total_(Size, Set(n)) /\ Total_(Size, Committed(n)') \in Nat
      <3> HIDE DEF Set
      <3> QED
        BY <1>5, <2>3, SizesAdd
    <2>5. act'.free[n] = act.free[n] - Total_(Size, Set(n)) /\ Total_(Size, Set(n)) \in Nat
      BY <1>4, <1>5, <1>10, <2>1
    <2> HIDE DEF Set
    <2> QED
      BY <2>1, <2>2, <2>4, <2>5
  <1>11. FreeIsFree'
    <2>1. nodes # None /\ nodes.fresh =>
             \A n \in DOMAIN nodes.free : nodes.free[n] <= SlurmFree(n)'
      BY <1>1 DEF FInv, FreeIsFree, SlurmFree
    <2> HIDE DEF Set
    <2> QED
      BY <1>1, <1>2, <1>10, <2>1 DEF FreeIsFree
  <1> QED
    BY <1>8, <1>9, <1>11 DEF FInv

(* Jobs of which sjpd has no claim are not there while others are moved.     *)
LEMMA AllClaimed ==
    ASSUME FInv, act.stage = "flex", act.todo # {} \/ act.cmd # None
    PROVE  \A k \in Jobs : moved[k] \in Nodes => Claimed(k) /\ up /\ mode = "enforce"
  BY DEF FInv, AccountedFor, Returning, Forgotten, StageOK, Claimed

(* Space is taken from a node for a job, which is moved there or not.        *)
LEMMA MoveFInv ==
    ASSUME IInv, IInv', FInv, NEW j \in Jobs, NEW n \in Nodes, Move(j, n) \/ MoveUnread(j, n)
    PROVE  FInv'
  <1>1. /\ UNCHANGED <<job, load, usable, up, mode, pend, nodes, flexed, moved>>
        /\ act.stage = "flex" /\ act.cmd = None /\ j \in act.todo
        /\ n \in DOMAIN act.free /\ act.free[n] - Soon(j, n) >= Size[j]
    BY DEF Move, MoveUnread, Taken, Ready, Tightest, Fits, cluster, history
  <1>2. /\ act'.stage = "flex" /\ act'.fresh = act.fresh /\ act'.todo = act.todo \ {j}
        /\ act'.free = [act.free EXCEPT ![n] = act.free[n] - Size[j]]
        /\ \/ act'.cmd = None
           \/ act'.cmd # None /\ act'.cmd.qos = "flex" /\ act'.cmd.job = j /\ act'.cmd.node = n
    <2>1. [job |-> j, qos |-> "flex", node |-> n, mark |-> [from |-> "own", to |-> "flex"]] # None
      BY Limits DEF Commands, Marks, QOSes
    <2>2. CASE Move(j, n)
      <3>1. act' = [act EXCEPT !.todo = @ \ {j}, !.free[n] = @ - Size[j],
                          !.cmd = [job |-> j, qos |-> "flex", node |-> n,
                                   mark |-> [from |-> "own", to |-> "flex"]]]
        BY <2>2 DEF Move
      <3>2. /\ act'.stage = act.stage /\ act'.fresh = act.fresh /\ act'.todo = act.todo \ {j}
            /\ act'.free = [act.free EXCEPT ![n] = act.free[n] - Size[j]]
        BY <3>1 DEF IInv, ActOK
      <3>3. act'.cmd = [job |-> j, qos |-> "flex", node |-> n,
                        mark |-> [from |-> "own", to |-> "flex"]]
        BY <3>1 DEF IInv, ActOK
      <3> QED
        BY <1>1, <2>1, <3>2, <3>3
    <2>3. CASE MoveUnread(j, n)
      <3>1. act' = [act EXCEPT !.todo = @ \ {j}, !.free[n] = @ - Size[j]]
        BY <2>3 DEF MoveUnread
      <3>2. /\ act'.stage = act.stage /\ act'.fresh = act.fresh /\ act'.todo = act.todo \ {j}
            /\ act'.free = [act.free EXCEPT ![n] = act.free[n] - Size[j]]
            /\ act'.cmd = act.cmd
        BY <3>1 DEF IInv, ActOK
      <3> QED
        BY <1>1, <3>2
    <2> QED
      BY <2>2, <2>3
  <1>3. FreeMap(act.free) /\ act.free[n] \in Int /\ Size[j] \in Nat
    BY <1>1, ConstantsAssumption DEF FInv, StageOK, FreeMap
  <1>4. /\ DOMAIN act'.free = DOMAIN act.free /\ act'.free[n] = act.free[n] - Size[j]
        /\ \A m \in DOMAIN act.free : m # n => act'.free[m] = act.free[m]
    BY <1>1, <1>2
  <1>5. FreeMap(act'.free)
    BY <1>1, <1>3, <1>4 DEF FreeMap
  <1>6. AccountedFor'
    BY <1>1, <1>2, AllClaimed DEF AccountedFor, Claimed
  <1>7. CountedOK' /\ StageOK'
    BY <1>1, <1>2, <1>5 DEF FInv, CountedOK, Pending, StageOK, FreeMap
  <1>8. act'.free[n] >= 0
    <2>1. Soon(j, n) \in Nat
      BY ConstantsAssumption DEF Soon
    <2> QED
      BY <1>1, <1>3, <1>4, <2>1
  <1>9. ASSUME act.fresh, NEW m \in DOMAIN act.free
        PROVE  act'.free[m] + Total_(Size, Committed(m)') <= SlurmFree(m)'
    <2>1. m \in Nodes /\ act.free[m] \in Int /\ SlurmFree(m) \in Int /\ SlurmFree(m)' = SlurmFree(m)
      BY <1>1, <1>3, SlurmFreeType DEF FreeMap, SlurmFree, IInv
    <2>2. act.free[m] + Total_(Size, Committed(m)) <= SlurmFree(m)
      BY <1>1, <1>9 DEF FInv, FreeIsFree
    <2>3. Committed(m) \in SUBSET Jobs /\ Committed(m)' \in SUBSET Jobs
      BY DEF Committed, Counting
    <2>4. CASE m = n
      <3>1. Committed(n)' \subseteq Committed(n) \cup {j}
        BY <1>1, <1>2 DEF Committed, Counting
      <3>2. /\ Total_(Size, Committed(n)') <= Total_(Size, Committed(n) \cup {j})
            /\ Total_(Size, Committed(n) \cup {j}) <= Total_(Size, Committed(n)) + Size[j]
            /\ Total_(Size, Committed(n)) \in Nat /\ Total_(Size, Committed(n)') \in Nat
            /\ Total_(Size, Committed(n) \cup {j}) \in Nat
        <4>1. Committed(n) \cup {j} \in SUBSET Jobs
          BY <2>3, <2>4
        <4> QED
          BY <2>3, <2>4, <3>1, <4>1, SizesAdd
      <3> QED
        BY <1>3, <1>4, <2>1, <2>2, <2>4, <3>2
    <2>5. CASE m # n
      <3>1. Committed(m)' \subseteq Committed(m)
        BY <1>1, <1>2, <2>5 DEF Committed, Counting
      <3> QED
        BY <1>4, <2>1, <2>2, <2>3, <2>5, <3>1, FreeKept
    <2> QED
      BY <2>4, <2>5
  <1>10. FreeIsFree'
    <2>1. nodes # None /\ nodes.fresh =>
             \A m \in DOMAIN nodes.free : nodes.free[m] <= SlurmFree(m)'
      BY <1>1 DEF FInv, FreeIsFree, SlurmFree
    <2> QED
      BY <1>1, <1>2, <1>4, <1>8, <1>9, <2>1 DEF FreeIsFree
  <1> QED
    BY <1>6, <1>7, <1>10 DEF FInv

(* Nothing is moved when the associations cannot be read.                    *)
LEMMA UsersUnreadFInv == ASSUME IInv, FInv, NEW j \in Jobs, UsersUnread(j) PROVE FInv'
  <1>1. /\ UNCHANGED <<job, load, usable, up, mode, pend, nodes, flexed, moved>>
        /\ act.stage = "flex" /\ act.cmd = None /\ j \in act.todo
        /\ act'.stage = "flex" /\ act'.free = act.free /\ act'.fresh = act.fresh
        /\ act'.todo = act.todo \ {j} /\ act'.cmd = None
    BY DEF UsersUnread, cluster, memory, history, IInv, ActOK
  <1>2. AccountedFor'
    BY <1>1, AllClaimed DEF AccountedFor, Claimed
  <1>3. CountedOK' /\ StageOK'
    BY <1>1 DEF FInv, CountedOK, Pending, StageOK, FreeMap
  <1>4. FreeIsFree'
    BY <1>1 DEF FInv, FreeIsFree, Committed, Counting, SlurmFree
  <1> QED
    BY <1>2, <1>3, <1>4 DEF FInv

(* Nothing when the pass ends.                                               *)
LEMMA ActEndFInv == ASSUME IInv, FInv, ActEnd PROVE FInv'
  <1>1. /\ UNCHANGED <<job, load, usable, up, mode, pend, nodes, flexed, moved>>
        /\ act.stage = "flex" /\ act.cmd = None /\ act'.stage = "idle" /\ act'.cmd = None
    BY DEF ActEnd, cluster, memory, history, Idle
  <1>2. AccountedFor'
    BY <1>1 DEF FInv, AccountedFor, Claimed, Returning, Forgotten
  <1>3. CountedOK' /\ StageOK'
    BY <1>1 DEF FInv, CountedOK, Pending, StageOK, FreeMap
  <1>4. FreeIsFree'
    BY <1>1 DEF FInv, FreeIsFree, SlurmFree
  <1> QED
    BY <1>2, <1>3, <1>4 DEF FInv

(* What a command that is done leaves of the act thread's record, and of     *)
(* the claims: in enforce mode, one for the job that was to be moved.        *)
LEMMA CommandIsDone ==
    ASSUME IInv, FInv, act.cmd # None, CommandDone
    PROVE  /\ act.cmd \in Commands /\ act.cmd.job \in Jobs
           /\ act'.stage = act.stage /\ act'.todo = act.todo /\ act'.held = act.held
           /\ act'.live = act.live /\ act'.free = act.free /\ act'.fresh = act.fresh
           /\ act'.cmd = None
           /\ \A k \in Jobs \ {act.cmd.job} : flexed'[k] = flexed[k]
           /\ \A k \in Jobs : flexed'[k] = flexed[k]
                              \/ (mode = "enforce" /\ up /\ act.cmd.qos = "flex")
           /\ mode = "enforce" /\ act.cmd.qos = "flex" =>
                 flexed'[act.cmd.job] # None /\ flexed'[act.cmd.job].node = act.cmd.node
  <1>1. act.cmd \in Commands /\ act.cmd.job \in Jobs
    BY DEF IInv, TypeOK, Commands
  <1>2. act.stage # "idle" /\ up
    BY DEF FInv, StageOK
  <1>3. act.cmd.qos = "flex" => [node |-> act.cmd.node, age |-> 0] # None
    <2>1. act.cmd.qos = "flex" => [node |-> act.cmd.node, age |-> 0] \in Claims
      BY Limits DEF IInv, CommandOK, Claims
    <2> QED
      BY <2>1, Limits
  <1>4. /\ act'.stage = act.stage /\ act'.todo = act.todo /\ act'.held = act.held
        /\ act'.live = act.live /\ act'.free = act.free /\ act'.fresh = act.fresh
        /\ act'.cmd = None
    BY DEF CommandDone, IInv, ActOK
  <1>5. flexed \in [Jobs -> Claims \cup {None}]
    BY DEF IInv, TypeOK
  <1>6. CASE Counted(act.cmd)
    BY <1>1, <1>2, <1>3, <1>4, <1>5, <1>6 DEF CommandDone, Counted
  <1>7. CASE ~Counted(act.cmd)
    BY <1>1, <1>4, <1>7 DEF CommandDone, Counted
  <1> QED
    BY <1>6, <1>7

(* A command, carried out or not: only the job it was for may come to count  *)
(* or cease to, and it counts where the command put it, with a claim.        *)
LEMMA CommandFInv ==
    ASSUME IInv, FInv, act.cmd # None, CommandDone,
           UNCHANGED <<load, up, mode, pend, nodes>>,
           NEW j, j = act.cmd.job,
           \A k \in Jobs \ {j} : moved'[k] = moved[k] /\ job'[k] = job[k],
           job'[j].at = job[j].at,
           moved'[j] \in Nodes => /\ job'[j].at = "pending" /\ job'[j].qos = "flex"
                                  /\ job'[j].mark # None /\ pend[j] # "none"
                                  /\ act.cmd.qos = "flex" /\ mode = "enforce"
                                  /\ moved'[j] = act.cmd.node
    PROVE  FInv'
  <1>1. /\ j \in Jobs
        /\ act'.stage = act.stage /\ act'.todo = act.todo /\ act'.held = act.held
        /\ act'.live = act.live /\ act'.free = act.free /\ act'.fresh = act.fresh
        /\ act'.cmd = None
        /\ \A k \in Jobs \ {j} : flexed'[k] = flexed[k]
        /\ \A k \in Jobs : flexed'[k] = flexed[k]
                           \/ (mode = "enforce" /\ up /\ act.cmd.qos = "flex")
        /\ mode = "enforce" /\ act.cmd.qos = "flex" =>
              flexed'[j] # None /\ flexed'[j].node = act.cmd.node
    BY CommandIsDone
  <1>2. act.stage = IF act.cmd.qos = "flex" THEN "flex" ELSE "unflex"
    BY DEF FInv, StageOK
  <1>3. CountedOK'
    BY <1>1 DEF FInv, CountedOK, Pending
  <1>4. StageOK'
    BY <1>1 DEF FInv, StageOK, FreeMap
  <1>5. AccountedFor'
    <2>1. ASSUME moved'[j] \in Nodes PROVE Claimed(j)'
      BY <1>1, <1>2, <2>1 DEF Claimed
    <2>2. ASSUME NEW k \in Jobs \ {j}, moved'[k] \in Nodes
          PROVE  Claimed(k)' \/ Forgotten(k)'
      <3>1. Claimed(k) \/ Forgotten(k)
        BY <2>2 DEF FInv, AccountedFor, Returning
      <3> QED
        BY <1>1, <2>2, <3>1 DEF Claimed, Forgotten
    <2> QED
      BY <2>1, <2>2 DEF AccountedFor
  <1>6. \A n \in Nodes : SlurmFree(n)' = SlurmFree(n)
    <2>1. \A k \in Jobs : job'[k].at = job[k].at
      BY <1>1
    <2>2. \A n : {k \in Jobs : job'[k].at = n} = {k \in Jobs : job[k].at = n}
      BY <2>1
    <2> QED
      BY <2>2 DEF SlurmFree
  <1>7. \A n \in Nodes : /\ Committed(n)' \subseteq Committed(n)
                         /\ Committed(n) \in SUBSET Jobs /\ Committed(n)' \in SUBSET Jobs
    BY <1>1 DEF Committed, Counting
  <1>8. FreeIsFree'
    <2>1. nodes # None /\ nodes.fresh =>
             \A n \in DOMAIN nodes.free : nodes.free[n] <= SlurmFree(n)'
      BY <1>6 DEF FInv, FreeIsFree, StageOK, FreeMap
    <2>2. act.stage = "unflex" /\ act.fresh =>
             \A n \in DOMAIN act.free : act.free[n] <= SlurmFree(n)'
      BY <1>6 DEF FInv, FreeIsFree, StageOK, FreeMap
    <2>3. ASSUME act.stage = "flex", act.fresh, NEW n \in DOMAIN act.free
          PROVE  act.free[n] + Total_(Size, Committed(n)') <= SlurmFree(n)'
      <3>1. n \in Nodes /\ act.free[n] \in Int /\ SlurmFree(n) \in Int
        BY <2>3, SlurmFreeType DEF FInv, StageOK, FreeMap, IInv
      <3>2. act.free[n] + Total_(Size, Committed(n)) <= SlurmFree(n)
        BY <2>3 DEF FInv, FreeIsFree
      <3>3. SlurmFree(n) <= SlurmFree(n) /\ SlurmFree(n)' = SlurmFree(n)
        BY <1>6, <3>1
      <3> QED
        BY <1>7, <3>1, <3>2, <3>3, FreeKept
    <2> QED
      BY <1>1, <2>1, <2>2, <2>3 DEF FreeIsFree
  <1> QED
    BY <1>3, <1>4, <1>5, <1>8 DEF FInv

(* What becomes of the job.                                                  *)
LEMMA CommandLandsOn ==
    ASSUME IInv, IInv', FInv, CommandLands
    PROVE  LET j == act.cmd.job IN
           /\ \A k \in Jobs \ {j} : moved'[k] = moved[k] /\ job'[k] = job[k]
           /\ job'[j].at = job[j].at
           /\ moved'[j] \in Nodes => /\ job'[j].at = "pending" /\ job'[j].qos = "flex"
                                     /\ job'[j].mark # None /\ pend[j] # "none"
                                     /\ act.cmd.qos = "flex" /\ mode = "enforce"
                                     /\ moved'[j] = act.cmd.node
  <1> DEFINE j == act.cmd.job
  <1>1. /\ act.cmd # None /\ act.cmd \in Commands /\ j \in Jobs /\ job[j].at = "pending"
        /\ mode = "enforce" /\ job \in [Jobs -> Job] /\ job[j] \in Job
        /\ moved \in [Jobs -> Nodes \cup {None, "started", "lost"}]
    BY DEF CommandLands, IInv, TypeOK, Commands, Pending, Blocked, Job
  <1>2. /\ job' = [job EXCEPT ![j] = Landed(job[j], act.cmd)]
        /\ moved' = [moved EXCEPT ![j] =
                       IF job[j].qos = act.cmd.qos THEN Recounted(moved[j])
                       ELSE IF act.cmd.qos = "flex" /\ pend[j] = "none" THEN "started"
                       ELSE act.cmd.node]
    BY DEF CommandLands
  <1>3. /\ job'[j] = Landed(job[j], act.cmd)
        /\ job'[j].at = job[j].at /\ job'[j].qos = act.cmd.qos
        /\ act.cmd.mark # None => job'[j].mark = act.cmd.mark
    BY <1>1, <1>2 DEF Landed, Under, Job, QOSes
  <1>4. act.cmd.qos \in {"own", "flex"}
    BY <1>1 DEF Commands, QOSes
  <1>5. ASSUME act.cmd.qos = "own" PROVE moved'[j] \notin Nodes
    <2>1. act.cmd.node = None /\ None \notin Nodes
      BY <1>1, <1>5, Limits DEF IInv, CommandOK
    <2>2. job[j].qos = "own" => moved[j] \notin Nodes
      BY <1>1 DEF FInv, CountedOK
    <2> QED
      BY <1>1, <1>2, <1>5, <2>1, <2>2 DEF Recounted
  <1>6. ASSUME act.cmd.qos = "flex", moved'[j] \in Nodes
        PROVE  job'[j].mark # None /\ pend[j] # "none" /\ moved'[j] = act.cmd.node
    <2>1. act.cmd.mark # None /\ act.stage = "flex" /\ "started" \notin Nodes
      BY <1>1, <1>6, NoneAssumption DEF IInv, CommandOK, FInv, StageOK
    <2>2. CASE job[j].qos = act.cmd.qos
      <3>1. moved[j] \in Nodes /\ moved'[j] = act.cmd.node
        BY <1>1, <1>2, <1>6, <2>2 DEF Recounted
      <3>2. pend[j] # "none"
        BY <1>1, <2>1, <3>1, AllClaimed DEF Claimed
      <3> QED
        BY <1>3, <2>1, <3>1, <3>2
    <2>3. CASE job[j].qos # act.cmd.qos
      BY <1>1, <1>2, <1>3, <1>6, <2>1, <2>3
    <2> QED
      BY <2>2, <2>3
  <1>7. \A k \in Jobs \ {j} : moved'[k] = moved[k] /\ job'[k] = job[k]
    BY <1>1, <1>2
  <1> QED
    BY <1>1, <1>3, <1>4, <1>5, <1>6, <1>7

(* So a command that lands keeps the invariant.                              *)
LEMMA CommandLandsFInv == ASSUME IInv, IInv', FInv, CommandLands PROVE FInv'
  <1>1. /\ act.cmd # None /\ CommandDone /\ UNCHANGED <<load, up, mode, pend, nodes>>
    BY DEF CommandLands
  <1> QED
    BY <1>1, CommandLandsOn, CommandFInv

(* One that does not land keeps it: a job that counts stays counted as it    *)
(* is, or where the claim is now, or is lost.                                *)
LEMMA CommandMissedFInv == ASSUME IInv, FInv, CommandMissed PROVE FInv'
  <1> DEFINE j == act.cmd.job
  <1>1. /\ act.cmd # None /\ CommandDone /\ UNCHANGED <<job, load, up, mode, pend, nodes>>
        /\ act.cmd \in Commands /\ j \in Jobs
        /\ moved \in [Jobs -> Nodes \cup {None, "started", "lost"}]
        /\ moved' = [moved EXCEPT ![j] = IF act.cmd.qos = "own" /\ moved[j] # None THEN "lost"
                                         ELSE Recounted(moved[j])]
    BY DEF CommandMissed, cluster, IInv, TypeOK, Commands
  <1>2. ASSUME moved'[j] \in Nodes
        PROVE  /\ moved[j] \in Nodes /\ act.cmd.qos = "flex" /\ moved'[j] = act.cmd.node
               /\ Claimed(j) /\ mode = "enforce"
    <2>1. "lost" \notin Nodes /\ None \notin Nodes /\ act.cmd.qos \in {"own", "flex"}
      BY <1>1, NoneAssumption DEF Commands, QOSes
    <2>2. act.cmd.qos = "flex" /\ moved'[j] = Recounted(moved[j])
      BY <1>1, <1>2, <2>1 DEF Recounted
    <2>3. moved[j] \in Nodes /\ moved'[j] = act.cmd.node
      BY <1>2, <2>2 DEF Recounted
    <2>4. act.stage = "flex"
      BY <1>1, <2>2 DEF FInv, StageOK
    <2> QED
      BY <1>1, <2>2, <2>3, <2>4, AllClaimed
  <1>3. /\ \A k \in Jobs \ {j} : moved'[k] = moved[k] /\ job'[k] = job[k]
        /\ job'[j].at = job[j].at
        /\ moved'[j] \in Nodes => /\ job'[j].at = "pending" /\ job'[j].qos = "flex"
                                  /\ job'[j].mark # None /\ pend[j] # "none"
                                  /\ act.cmd.qos = "flex" /\ mode = "enforce"
                                  /\ moved'[j] = act.cmd.node
    BY <1>1, <1>2 DEF FInv, CountedOK, Pending, Claimed
  <1> HIDE DEF j
  <1>4. j = act.cmd.job
    BY DEF j
  <1> QED
    BY <1>1, <1>3, <1>4, CommandFInv

(* A restart forgets the claims, and the queue.                              *)
LEMMA KillFInv == ASSUME IInv, FInv, Kill PROVE FInv'
  <1>1. /\ UNCHANGED <<job, moved>>
        /\ \A k \in Jobs : flexed'[k] = None /\ pend'[k] = "none"
        /\ nodes' = None /\ act'.stage = "idle" /\ act'.cmd = None
    BY DEF Kill, cluster, Idle
  <1> QED
    BY <1>1 DEF FInv, CountedOK, Pending, StageOK, AccountedFor, Forgotten, FreeIsFree

(* A start finds no claims.                                                  *)
LEMMA StartFInv == ASSUME IInv, FInv, Start PROVE FInv'
  <1>1. /\ UNCHANGED <<job, load, usable, pend, nodes, flexed, act, moved>> /\ ~up
    BY DEF Start, cluster, memory, history
  <1>2. \A k \in Jobs : flexed[k] = None
    BY <1>1 DEF FInv, StageOK
  <1>3. StageOK'
    BY <1>1, <1>2 DEF FInv, StageOK, FreeMap
  <1>4. CountedOK' /\ AccountedFor'
    BY <1>1 DEF FInv, CountedOK, Pending, AccountedFor, Claimed, Returning, Forgotten
  <1>5. FreeIsFree'
    BY <1>1 DEF FInv, FreeIsFree, Committed, Counting, SlurmFree
  <1> QED
    BY <1>3, <1>4, <1>5 DEF FInv

(* Time changes the age of a claim only.                                     *)
LEMMA TickFInv == ASSUME IInv, FInv, Tick PROVE FInv'
  <1>1. /\ UNCHANGED <<job, load, usable, up, mode, pend, nodes, act, moved>>
        /\ flexed \in [Jobs -> Claims \cup {None}]
        /\ \A k \in Jobs : flexed'[k] = IF flexed[k] = None THEN None
                             ELSE [flexed[k] EXCEPT !.age = Older(flexed[k].age, RevertAfter)]
    BY DEF Tick, cluster, IInv, TypeOK
  <1>2. \A k \in Jobs : /\ (flexed'[k] = None) = (flexed[k] = None)
                        /\ flexed[k] # None => flexed'[k].node = flexed[k].node
    <2> SUFFICES ASSUME NEW k \in Jobs, flexed[k] # None
                 PROVE  flexed'[k] # None /\ flexed'[k].node = flexed[k].node
      BY <1>1
    <2>1. flexed[k] \in Claims
      BY <1>1
    <2>2. flexed'[k] = [flexed[k] EXCEPT !.age = Older(flexed[k].age, RevertAfter)]
      BY <1>1
    <2>3. Older(flexed[k].age, RevertAfter) \in 0 .. RevertAfter
      BY <2>1, Limits DEF Claims, Older
    <2>4. flexed'[k] \in Claims /\ flexed'[k].node = flexed[k].node
      BY <2>1, <2>2, <2>3 DEF Claims
    <2> QED
      BY <2>4, Limits
  <1>3. AccountedFor'
    BY <1>1, <1>2 DEF FInv, AccountedFor, Claimed, Returning, Forgotten
  <1>4. CountedOK' /\ StageOK'
    BY <1>1, <1>2 DEF FInv, CountedOK, Pending, StageOK, FreeMap
  <1>5. FreeIsFree'
    BY <1>1 DEF FInv, FreeIsFree, Committed, Counting, SlurmFree
  <1> QED
    BY <1>3, <1>4, <1>5 DEF FInv

(* Each step keeps the invariant.                                            *)
LEMMA NextFInv == IInv /\ IInv' /\ FInv /\ [Next]_vars => FInv'
  <1> SUFFICES ASSUME IInv, IInv', FInv, [Next]_vars PROVE FInv'
    OBVIOUS
  <1>1. CASE SlurmNext
    BY <1>1, SlurmFInv
  <1>2. CASE ActNext
    BY <1>2, ActBeginFInv, FlexBeginFInv, ActEndFInv, CommandLandsFInv, CommandMissedFInv,
       PutBackFInv, PutBackUnreadFInv, UsersUnreadFInv, MoveFInv DEF ActNext
  <1>3. CASE PollQueue \/ PollNodes \/ Start \/ Kill \/ Tick
    BY <1>3, PollQueueFInv, PollNodesFInv, StartFInv, KillFInv, TickFInv
  <1>4. CASE Disable \/ Enable \/ UNCHANGED vars
    <2>1. JobsKept /\ UNCHANGED <<load, up, mode, pend, nodes, flexed, act>>
      BY <1>4 DEF Disable, Enable, vars, cluster, memory, history, JobsKept
    <2> QED
      BY <2>1, JobsKeptFInv
  <1> QED
    BY <1>1, <1>2, <1>3, <1>4 DEF Next

(* "so the moves never add up to more than the cluster can start": when a    *)
(* job is moved, it and all jobs moved before that have not started fit on   *)
(* the node they count against, whichever pass or run of sjpd moved them, as *)
(* long as nothing has started since the nodes were read.                    *)
THEOREM MovesAddUp == Spec => MovesFit
  <1>1. ASSUME IInv, IInv', FInv, FInv', [Next]_vars
        PROVE  [\A j \in Jobs : Moves(j) /\ moved'[j] \in Nodes /\ act.fresh =>
                  LET n == moved'[j]
                  IN  Total_(Size, {k \in Jobs : moved'[k] = n /\ Pending(k)}) <= SlurmFree(n)]_vars
    <2> SUFFICES ASSUME Next, NEW j \in Jobs, Moves(j), moved'[j] \in Nodes, act.fresh
                 PROVE  Total_(Size, {k \in Jobs : moved'[k] = moved'[j] /\ Pending(k)})
                           <= SlurmFree(moved'[j])
      BY <1>1
    <2> DEFINE n == moved'[j]
               S == {k \in Jobs : moved'[k] = n /\ Pending(k)}
    <2>1. CommandLands /\ act.cmd # None /\ act.cmd.job = j /\ j \in Jobs
      BY <1>1, MovesByCommand
    <2>2. /\ act.cmd.qos = "flex" /\ n = act.cmd.node
          /\ \A k \in Jobs \ {j} : moved'[k] = moved[k]
      BY <1>1, <2>1, CommandLandsOn
    <2>3. S \subseteq Committed(n) /\ S \in SUBSET Jobs /\ Committed(n) \in SUBSET Jobs
      BY <2>1, <2>2 DEF Committed, Counting
    <2>4. act.stage = "flex" /\ FreeMap(act.free)
      BY <1>1, <2>1, <2>2 DEF FInv, StageOK
    <2>5. /\ n \in DOMAIN act.free /\ act.free[n] \in Int /\ act.free[n] >= 0
          /\ act.free[n] + Total_(Size, Committed(n)) <= SlurmFree(n)
      BY <1>1, <2>1, <2>2, <2>4 DEF FInv, FreeIsFree, FreeMap
    <2>6. /\ Total_(Size, S) <= Total_(Size, Committed(n))
          /\ Total_(Size, S) \in Nat /\ Total_(Size, Committed(n)) \in Nat
      <3> HIDE DEF S
      <3> QED
        BY <2>3, SizesAdd
    <2>7. SlurmFree(n) \in Int
      BY <1>1, SlurmFreeType DEF IInv
    <2> HIDE DEF S, n
    <2>8. Total_(Size, S) <= SlurmFree(n)
      BY <2>5, <2>6, <2>7
    <2> QED
      BY <2>8 DEF S, n
  <1>2. Init => IInv /\ FInv
    BY InitInv, InitFInv
  <1>3. IInv /\ FInv /\ [Next]_vars => (IInv /\ FInv)'
    BY NextInv, NextFInv
  <1> QED
    BY <1>1, <1>2, <1>3, PTL DEF Spec, MovesFit
=============================================================================
