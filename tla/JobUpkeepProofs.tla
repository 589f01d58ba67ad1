-------------------------- MODULE JobUpkeepProofs --------------------------
(* What holds of JobUpkeep for every set of partitions, all times, and any  *)
(* number of faults: its types; that a job is marked as released only when   *)
(* its pin is off; and that a user's own node list is left alone.            *)
EXTENDS JobUpkeep, TLAPS

-----------------------------------------------------------------------------
(* The limits are numbers, and there is a first try.                         *)
LEMMA Limits ==
    /\ WaitCap \in Nat /\ FaultBudget \in Nat
    /\ Tries \in Nat /\ Tries > 0
  BY ConstantsAssumption DEF WaitCap

(* The counters and their ranges.                                            *)
LEMMA Counters ==
    TypeOK => faults \in 0 .. FaultBudget /\ tries \in 0 .. Tries - 1
                /\ waited \in 0 .. WaitCap
  BY DEF TypeOK

(* A fault is one of those left.                                             *)
LEMMA FaultType == ASSUME TypeOK, NEW kind, Fault(kind) PROVE faults' \in 0 .. FaultBudget
  BY Limits, Counters DEF Fault

(* A row of squeue is a row.                                                 *)
LEMMA RowType == TypeOK /\ InQueue => Row \in Rows /\ Row # None
  <1> SUFFICES ASSUME TypeOK, InQueue PROVE Row \in Rows /\ Row # None
    OBVIOUS
  <1>1. Row \in Rows
    BY DEF TypeOK, InQueue, Row, Rows
  <1> QED
    BY <1>1, NoneAssumption

(* Carrying out a command leaves a job.                                      *)
LEMMA CarryType ==
    ASSUME TypeOK, NEW c \in Commands, Carry(c)
    PROVE  /\ node' \in NodeLists /\ parts' \in PartSets /\ mark' \in Marks
           /\ UNCHANGED <<state, helped, waited, pinParts>>
  <1>1. From \in PartSets /\ Feasible \in PartSets
    BY ConstantsAssumption DEF PartSets
  <1>2. CASE c = "drop"
    BY <1>2 DEF TypeOK, Carry, NodeLists
  <1>3. CASE c = "restore"
    BY <1>1, <1>3 DEF TypeOK, Carry, Remarked, Marks
  <1>4. CASE c = "widen"
    BY <1>1, <1>4 DEF TypeOK, Carry
  <1> QED
    BY <1>2, <1>3, <1>4 DEF Commands

(* What the thread keeps is in range when it is done with a job ...          *)
LEMMA FinishType ==
    ASSUME Finish
    PROVE  /\ pc' = "idle" /\ row' = None /\ tries' = 0 /\ 0 \in 0 .. Tries - 1
  BY Limits DEF Finish

(* ... and with the second command of a release still to come.               *)
LEMMA ProceedType ==
    ASSUME TypeOK, pc \in Commands, Proceed
    PROVE  /\ pc' \in {"idle", "restore"} /\ tries' \in 0 .. Tries - 1
           /\ row' \in Rows \cup {None} /\ (row' = None <=> pc' = "idle")
           /\ pc' = "restore" => pc = "drop"
  <1>1. CASE pc = "drop"
    <2>1. row \in Rows /\ row # None
      BY <1>1 DEF TypeOK
    <2> QED
      BY <1>1, <2>1, Limits DEF Proceed
  <1>2. CASE pc # "drop"
    BY <1>2, FinishType DEF Proceed
  <1> QED
    BY <1>1, <1>2

(* The initial states have the types.                                        *)
LEMMA InitType == Init => TypeOK
  <1> SUFFICES ASSUME Init PROVE TypeOK
    OBVIOUS
  <1>1. /\ 0 \in 0 .. WaitCap /\ 0 \in 0 .. Tries - 1
        /\ FaultBudget \in 0 .. FaultBudget
    BY Limits
  <1>2. pc \in {"idle", "pin comment", "comment"} \cup Commands
    BY DEF Init
  <1> QED
    BY <1>1, <1>2 DEF Init, TypeOK

(* Every step keeps them.                                                    *)
LEMMA NextType == TypeOK /\ [Next]_vars => TypeOK'
  <1> SUFFICES ASSUME TypeOK, [Next]_vars PROVE TypeOK'
    OBVIOUS
  <1> USE DEF job, thread
  <1>0. \A kind : Fault(kind) => faults' \in 0 .. FaultBudget
    BY FaultType
  <1>1. CASE Poll
    BY <1>1, RowType DEF Poll, TypeOK
  <1>2. CASE PollFails
    BY <1>0, <1>2 DEF PollFails, TypeOK
  <1>3. CASE CommentOfPinned
    <2>1. CASE Finish
      BY <1>3, <2>1, FinishType DEF CommentOfPinned, TypeOK
    <2>2. CASE pc' = "drop" /\ UNCHANGED <<row, tries>>
      BY <1>3, <2>2 DEF CommentOfPinned, TypeOK, Commands
    <2> QED
      BY <1>3, <2>1, <2>2 DEF CommentOfPinned
  <1>4. CASE CommentOfStarving
    <2>1. CASE Finish /\ (Mishap("widen") \/ UNCHANGED mishaps)
      BY <1>4, <2>1, FinishType DEF CommentOfStarving, TypeOK, Mishap
    <2>2. CASE pc' = "widen" /\ UNCHANGED <<row, tries, mishaps>>
      BY <1>4, <2>2 DEF CommentOfStarving, TypeOK, Commands
    <2> QED
      BY <1>4, <2>1, <2>2 DEF CommentOfStarving
  <1>5. CASE CommentFails
    BY <1>0, <1>5, FinishType DEF CommentFails, TypeOK, Mishap
  <1>6. CASE Update
    <2>1. /\ node' \in NodeLists /\ parts' \in PartSets /\ mark' \in Marks
          /\ UNCHANGED <<state, helped, waited, pinParts>>
      BY <1>6, CarryType DEF Update
    <2>2. mishaps' \subseteq mishaps \cup {"widen"}
      BY <1>6 DEF Update, Narrowed
    <2>3. /\ pc' \in {"idle", "restore"} /\ tries' \in 0 .. Tries - 1
          /\ row' \in Rows \cup {None} /\ (row' = None <=> pc' = "idle")
      BY <1>6, ProceedType DEF Update
    <2> QED
      BY <1>6, <2>1, <2>2, <2>3 DEF Update, TypeOK, Commands
  <1>7. CASE UpdateTooLate
    <2>1. mishaps' \subseteq mishaps \cup {"release", "restore", "widen", "late"}
      BY <1>7 DEF UpdateTooLate, Undone, Commands
    <2>2. /\ pc' \in {"idle", "restore"} /\ tries' \in 0 .. Tries - 1
          /\ row' \in Rows \cup {None} /\ (row' = None <=> pc' = "idle")
      BY <1>7, ProceedType DEF UpdateTooLate
    <2> QED
      BY <1>7, <2>1, <2>2 DEF UpdateTooLate, TypeOK, Commands
  <1>8. CASE UpdateBusy
    <2>1. tries' \in 0 .. Tries - 1
      BY <1>8, Limits, Counters DEF UpdateBusy, MayRetry
    <2> QED
      BY <1>0, <1>8, <2>1 DEF UpdateBusy, TypeOK
  <1>9. CASE UpdateLandsLate
    <2>1. /\ node' \in NodeLists /\ parts' \in PartSets /\ mark' \in Marks
          /\ UNCHANGED <<state, helped, waited, pinParts>>
      BY <1>9, CarryType DEF UpdateLandsLate
    <2>2. mishaps' \subseteq mishaps \cup {"widen", "restore"}
      BY <1>9 DEF UpdateLandsLate, Narrowed
    <2> QED
      BY <1>0, <1>9, <2>1, <2>2, FinishType DEF UpdateLandsLate, AfterError, TypeOK
  <1>10. CASE UpdateFails
    <2>1. mishaps' \subseteq mishaps \cup {"release", "restore", "widen"}
      BY <1>10 DEF UpdateFails, Mishap, Undone, Commands
    <2>2. faults' \in 0 .. FaultBudget
      BY <1>0, <1>10 DEF UpdateFails, TypeOK
    <2> QED
      BY <1>10, <2>1, <2>2, FinishType DEF UpdateFails, AfterError, TypeOK
  <1>11. CASE JobNext
    <2>1. CASE StartJob \/ EndJob
      <3>1. CASE StartJob
        BY <3>1 DEF StartJob, TypeOK
      <3>2. CASE EndJob
        BY <3>2 DEF EndJob, TypeOK
      <3> QED
        BY <2>1, <3>1, <3>2
    <2>2. CASE RequeueJob
      <3>1. waited' \in 0 .. WaitCap
        BY <2>2, Limits, Counters DEF RequeueJob
      <3>2. faults' \in 0 .. FaultBudget
        BY <1>0, <2>2 DEF RequeueJob, TypeOK
      <3> QED
        BY <2>2, <3>1, <3>2, ZenonT(30) DEF RequeueJob, TypeOK
    <2>3. CASE ReasonChanges
      BY <1>0, <2>3, ZenonT(30) DEF ReasonChanges, TypeOK
    <2>4. CASE UserChoosesNode
      BY <1>0, <2>4 DEF UserChoosesNode, TypeOK, NodeLists, Mishap
    <2> QED
      BY <1>11, <2>1, <2>2, <2>3, <2>4 DEF JobNext
  <1>12. CASE FaultNext
    <2>1. CASE Kill
      <3>1. mishaps' \subseteq mishaps \cup {"restore"}
        BY <2>1 DEF Kill
      <3> QED
        BY <1>0, <2>1, <3>1, FinishType DEF Kill, TypeOK
    <2>2. CASE Disable \/ Enable
      <3>1. CASE Disable
        BY <1>0, <3>1 DEF Disable, TypeOK
      <3>2. CASE Enable
        BY <3>2 DEF Enable, TypeOK
      <3> QED
        BY <2>2, <3>1, <3>2
    <2> QED
      BY <1>12, <2>1, <2>2 DEF FaultNext
  <1>13. CASE Start
    BY <1>13 DEF Start, TypeOK
  <1>14. CASE Tick
    <2>1. waited' \in 0 .. WaitCap
      BY <1>14, Limits, Counters DEF Tick
    <2> QED
      BY <1>14, <2>1 DEF Tick, TypeOK
  <1>15. CASE UNCHANGED vars
    BY <1>15, ZenonT(30) DEF vars, TypeOK
  <1> QED
    BY <1>1, <1>2, <1>3, <1>4, <1>5, <1>6, <1>7, <1>8, <1>9, <1>10, <1>11, <1>12,
       <1>13, <1>14, <1>15 DEF Next, UpkeepStep, FailedStep

(* Job, row and bookkeeping stay in range whatever goes wrong: a retry never *)
(* exceeds the tries there are, and no command leaves a job without a        *)
(* partition.                                                                *)
THEOREM TypeCorrect == Spec => []TypeOK
  BY InitType, NextType, PTL DEF Spec

-----------------------------------------------------------------------------
(* The second command of a release finds the pin gone, unless the job had    *)
(* started when the first was to take it.                                    *)
DroppedFirst == pc = "restore" /\ node = "pin" => "late" \in mishaps

(* Every step keeps both facts.                                              *)
LEMMA NextMarked ==
    TypeOK /\ MarkedReleased /\ DroppedFirst /\ [Next]_vars
      => MarkedReleased' /\ DroppedFirst'
  <1> SUFFICES ASSUME TypeOK, MarkedReleased, DroppedFirst, [Next]_vars
               PROVE  MarkedReleased' /\ DroppedFirst'
    OBVIOUS
  <1> USE DEF MarkedReleased, DroppedFirst, job, thread
  <1>1. CASE Poll
    BY <1>1 DEF Poll
  <1>2. CASE PollFails \/ CommentOfPinned \/ CommentOfStarving \/ CommentFails
    BY <1>2 DEF PollFails, CommentOfPinned, CommentOfStarving, CommentFails, Finish, Mishap
  <1>3. CASE Update
    <2>1. mishaps \subseteq mishaps'
      BY <1>3 DEF Update
    <2>2. pc' = "restore" => pc = "drop"
      BY <1>3, ProceedType DEF Update
    <2> QED
      BY <1>3, <2>1, <2>2 DEF Update, Carry, Remarked
  <1>4. CASE UpdateTooLate
    <2>1. pc' = "restore" => "late" \in mishaps'
      BY <1>4, ProceedType DEF UpdateTooLate
    <2> QED
      BY <1>4, <2>1 DEF UpdateTooLate
  <1>5. CASE UpdateBusy
    BY <1>5 DEF UpdateBusy
  <1>6. CASE UpdateLandsLate
    BY <1>6 DEF UpdateLandsLate, Carry, Remarked, AfterError, Finish
  <1>7. CASE UpdateFails
    BY <1>7 DEF UpdateFails, AfterError, Finish, Mishap
  <1>8. CASE JobNext
    BY <1>8 DEF JobNext, StartJob, EndJob, RequeueJob, ReasonChanges, UserChoosesNode, Mishap
  <1>9. CASE FaultNext
    BY <1>9 DEF FaultNext, Kill, Disable, Enable, Finish
  <1>10. CASE Start \/ Tick
    BY <1>10 DEF Start, Tick
  <1>11. CASE UNCHANGED vars
    BY <1>11 DEF vars
  <1> QED
    BY <1>1, <1>2, <1>3, <1>4, <1>5, <1>6, <1>7, <1>8, <1>9, <1>10, <1>11
       DEF Next, UpkeepStep, FailedStep

(* release_pins: the comment says released only once the pin is off (or the  *)
(* job had started by then), so that nothing is held to a node with nobody   *)
(* left to look at it.                                                       *)
THEOREM ReleasedMeansDropped == Spec => []MarkedReleased
  <1>1. Init => MarkedReleased /\ DroppedFirst
    BY DEF Init, Submitted, MarkedReleased, DroppedFirst
  <1>2. TypeOK /\ (MarkedReleased /\ DroppedFirst) /\ [Next]_vars
          => (MarkedReleased /\ DroppedFirst)'
    BY NextMarked
  <1> QED
    BY <1>1, <1>2, TypeCorrect, PTL DEF Spec

-----------------------------------------------------------------------------
(* A job whose mark still says pin has its pin, or is between the two        *)
(* commands of its release, or something came in between for good; and a     *)
(* pin is only dropped from a job whose mark says pin.                       *)
MarkTellsPin ==
    /\ mark = "pin" /\ node # "pin" =>
          pc = "restore" \/ {"restore", "replaced"} \cap mishaps # {}
    /\ pc = "drop" => mark = "pin"

(* Every step keeps this.                                                    *)
LEMMA NextMarkTells == TypeOK /\ MarkTellsPin /\ [Next]_vars => MarkTellsPin'
  <1> SUFFICES ASSUME TypeOK, MarkTellsPin, [Next]_vars PROVE MarkTellsPin'
    OBVIOUS
  <1> USE DEF MarkTellsPin, job, thread
  <1>1. CASE Poll
    BY <1>1 DEF Poll
  <1>2. CASE PollFails \/ CommentOfPinned \/ CommentOfStarving \/ CommentFails
    BY <1>2 DEF PollFails, CommentOfPinned, CommentOfStarving, CommentFails, Finish,
               Mishap, SjpPinned
  <1>3. CASE Update
    <2>1. mishaps \subseteq mishaps'
      BY <1>3 DEF Update
    <2>2. /\ pc = "drop" => pc' = "restore"
          /\ pc' # "drop"
      BY <1>3 DEF Update, Proceed, Finish
    <2> QED
      BY <1>3, <2>1, <2>2 DEF Update, Carry, Remarked, Commands
  <1>4. CASE UpdateTooLate
    <2>1. /\ pc' # "drop" /\ mishaps \subseteq mishaps'
          /\ pc = "restore" => "restore" \in mishaps'
      BY <1>4 DEF UpdateTooLate, Proceed, Finish, Undone
    <2> QED
      BY <1>4, <2>1 DEF UpdateTooLate
  <1>5. CASE UpdateBusy
    BY <1>5 DEF UpdateBusy
  <1>6. CASE UpdateLandsLate
    <2>1. /\ pc' = "idle" /\ mishaps \subseteq mishaps'
          /\ pc = "drop" => "restore" \in mishaps'
      BY <1>6 DEF UpdateLandsLate, AfterError, Finish
    <2> QED
      BY <1>6, <2>1 DEF UpdateLandsLate, Carry, Remarked, Commands
  <1>7. CASE UpdateFails
    <2>1. /\ pc' = "idle" /\ mishaps \subseteq mishaps'
          /\ pc = "restore" => "restore" \in mishaps'
      BY <1>7 DEF UpdateFails, AfterError, Finish, Mishap, Undone
    <2> QED
      BY <1>7, <2>1 DEF UpdateFails
  <1>8. CASE JobNext
    <2>1. CASE UserChoosesNode
      BY <2>1 DEF UserChoosesNode, Mishap
    <2>2. CASE StartJob \/ EndJob \/ RequeueJob \/ ReasonChanges
      BY <2>2 DEF StartJob, EndJob, RequeueJob, ReasonChanges
    <2> QED
      BY <1>8, <2>1, <2>2 DEF JobNext
  <1>9. CASE FaultNext
    <2>1. CASE Kill
      <3>1. /\ pc' = "idle" /\ pc = "restore" => "restore" \in mishaps'
            /\ \A m \in {"restore", "replaced"} : m \in mishaps => m \in mishaps'
        BY <2>1 DEF Kill, Finish
      <3> QED
        BY <2>1, <3>1 DEF Kill, Finish
    <2>2. CASE Disable \/ Enable
      BY <2>2 DEF Disable, Enable
    <2> QED
      BY <1>9, <2>1, <2>2 DEF FaultNext
  <1>10. CASE Start \/ Tick
    BY <1>10 DEF Start, Tick
  <1>11. CASE UNCHANGED vars
    BY <1>11 DEF vars
  <1> QED
    BY <1>1, <1>2, <1>3, <1>4, <1>5, <1>6, <1>7, <1>8, <1>9, <1>10, <1>11
       DEF Next, UpkeepStep, FailedStep

(* Only a command of sjpd takes a node list away, and then the mark says pin. *)
LEMMA NodeListLost ==
    ASSUME TypeOK, [Next]_vars, node = "user", node' # "user"
    PROVE  pc = "drop"
  <1> USE DEF job, thread
  <1>1. node' = node \/ Update \/ UpdateLandsLate \/ UserChoosesNode
    BY DEF Next, UpkeepStep, FailedStep, JobNext, FaultNext, Poll, PollFails,
           CommentOfPinned, CommentOfStarving, CommentFails, UpdateTooLate, UpdateBusy,
           UpdateFails, StartJob, EndJob, RequeueJob, ReasonChanges, Kill, Disable,
           Enable, Start, Tick, vars
  <1> QED
    BY <1>1 DEF Update, UpdateLandsLate, UserChoosesNode, Carry

(* release_pins: a node list of the user's own is never touched, across      *)
(* releases, requeues, failing commands and restarts, unless a release was   *)
(* left half done or the list took the place of a pin.                       *)
THEOREM OwnNodeListKept == Spec => UserNodeListKept
  <1>1. Init => MarkTellsPin
    BY DEF Init, Submitted, MarkTellsPin
  <1>2. TypeOK /\ MarkTellsPin /\ [Next]_vars
          => [node = "user" => node' = "user" \/ {"restore", "replaced"} \cap mishaps # {}]_vars
    BY NodeListLost DEF MarkTellsPin
  <1> QED
    BY <1>1, <1>2, NextMarkTells, TypeCorrect, PTL DEF Spec, UserNodeListKept
=============================================================================
