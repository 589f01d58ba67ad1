------------------------ MODULE PlacementTableProofs ------------------------
(* What holds of PlacementTable for every cluster, every setting and any     *)
(* number of faults: its types, the real age of the node state behind a pin, *)
(* that a pin never outlives enforce mode by more than pin.max_age, and that *)
(* the pins made from one table fit in it.                                   *)
EXTENDS PlacementTable, FiniteSetTheorems, TLAPS

-----------------------------------------------------------------------------
(* Ages are capped, and capping keeps their order.                           *)
LEMMA OlderType ==
    /\ AgeCap \in Nat
    /\ \A a \in Nat : Older(a) \in Nat
    /\ \A a \in 0 .. AgeCap + 1 : Older(a) \in 0 .. AgeCap + 1
    /\ \A a \in 0 .. AgeCap + 1, b \in Nat : a <= b => Older(a) <= Older(b)
  BY ConstantsAssumption DEF Older, AgeCap

(* What poll_nodes reads is a free map.                                      *)
LEMMA NodeFreeType ==
    ASSUME load \in [Nodes -> 0 .. MaxLoad]
    PROVE  NodeFree \in FreeMaps
  BY ConstantsAssumption DEF NodeFree, FreeMaps, Down

(* A pin takes what its node had, and leaves the others alone.               *)
LEMMA CountedType ==
    ASSUME NEW ns \in FreeMaps, NEW n \in Nodes, NEW size \in Sizes, ns[n] >= size
    PROVE  /\ Counted(ns, n, size) \in FreeMaps
           /\ Counted(ns, n, size)[n] = ns[n] - size
           /\ \A m \in Nodes : m # n => Counted(ns, n, size)[m] = ns[m]
  <1>1. size \in Nat /\ size > 0
    BY ConstantsAssumption
  <1>2. ns[n] \in Nat /\ ns[n] - size \in Nat
    BY <1>1 DEF FreeMaps, Down
  <1> QED
    BY <1>2 DEF Counted, FreeMaps

(* The state has its type initially.                                         *)
LEMMA InitTypeOK == Init => TypeOK
  <1> SUFFICES ASSUME Init PROVE TypeOK
    OBVIOUS
  <1>1. AgeCap \in 0 .. AgeCap + 1
    BY OlderType
  <1>2. load \in [Nodes -> 0 .. MaxLoad] /\ charged \in [Nodes -> Nat]
    BY ConstantsAssumption DEF Init
  <1>3. /\ sinceWrite \in 0 .. AgeCap + 1 /\ sinceEnforce \in 0 .. AgeCap + 1
        /\ faults \in 0 .. FaultBudget /\ changes \in 0 .. LoadChanges
    BY <1>1, ConstantsAssumption DEF Init
  <1> QED
    BY <1>2, <1>3 DEF Init, TypeOK

(* Each step keeps the type.                                                 *)
LEMMA NextTypeOK == TypeOK /\ [Next]_vars => TypeOK'
  <1> SUFFICES ASSUME TypeOK, [Next]_vars PROVE TypeOK'
    OBVIOUS
  <1> USE ConstantsAssumption, NoneAssumption
  <1>1. CASE NodesChange
    BY <1>1 DEF NodesChange, TypeOK, daemon, plugin, world
  <1>2. CASE Start
    BY <1>2, OlderType DEF Start, TypeOK, slurm, plugin, world
  <1>3. CASE Kill
    <2>1. faults' \in 0 .. FaultBudget
      BY <1>3 DEF Kill, Fault, TypeOK
    <2>2. AgeCap \in 0 .. AgeCap + 1
      BY OlderType
    <2>3. CASE UNCHANGED <<table, plugin>>
      BY <1>3, <2>1, <2>2, <2>3 DEF Kill, TypeOK, slurm, plugin
    <2>4. CASE table' = None /\ loaded' = FALSE /\ room' = None
               /\ charged' = [n \in Nodes |-> 0]
      BY <1>3, <2>1, <2>2, <2>4 DEF Kill, TypeOK, slurm
    <2> QED
      BY <1>3, <2>3, <2>4 DEF Kill
  <1>4. CASE PollRead
    BY <1>4, NodeFreeType DEF PollRead, TypeOK, slurm, plugin, world
  <1>5. CASE PollPublish
    <2>1. nodes' \in Snapshots
      BY <1>5 DEF PollPublish, TypeOK, Snapshots
    <2> QED
      BY <1>5, <2>1 DEF PollPublish, TypeOK, slurm, plugin, world
  <1>6. CASE PollFail
    BY <1>6 DEF PollFail, Fault, TypeOK, slurm, plugin
  <1>7. CASE Score
    <2>1. CASE UNCHANGED <<draft, lastFree, sinceWrite>>
      BY <1>7, <2>1 DEF Score, TypeOK, slurm, plugin, world
    <2>2. CASE /\ ScoreUsable
               /\ lastFree' = nodes.free /\ sinceWrite' = 0
               /\ draft' = [free |-> nodes.free, lag |-> nodes.age + nodes.lag]
      <3>1. nodes \in Snapshots
        BY <2>2 DEF ScoreUsable, Scorable, TypeOK
      <3>2. draft' \in Drafts /\ lastFree' \in FreeMaps /\ sinceWrite' \in 0 .. AgeCap + 1
        BY <2>2, <3>1, OlderType DEF Snapshots, Drafts
      <3> QED
        BY <1>7, <3>2 DEF Score, TypeOK, slurm, plugin, world
    <2> QED
      BY <1>7, <2>1, <2>2 DEF Score
  <1>8. CASE Write
    <2>1. table' \in Tables
      BY <1>8 DEF Write, Rendered, TypeOK, Drafts, Tables
    <2> QED
      BY <1>8, <2>1 DEF Write, TypeOK, slurm, world
  <1>9. CASE WriteLost
    BY <1>9 DEF WriteLost, Fault, TypeOK, slurm, plugin
  <1>10. CASE SubmitUnpinned
    <2>1. room' \in FreeMaps
      BY <1>10 DEF SubmitUnpinned, TableReadable, View, TypeOK, Tables
    <2> QED
      BY <1>10, <2>1 DEF SubmitUnpinned, TypeOK, slurm, daemon, world
  <1>11. ASSUME NEW size \in Sizes, NEW n \in Nodes, SubmitPinned(size, n) PROVE TypeOK'
    <2>1. View[n] >= size
      BY <1>11 DEF SubmitPinned, TopRanked, Candidates
    <2>2. charged' \in [Nodes -> Nat]
      BY <1>11 DEF SubmitPinned, TypeOK
    <2>3. View \in FreeMaps
      BY <1>11 DEF SubmitPinned, TableReadable, View, TypeOK, Tables
    <2>4. room' \in FreeMaps
      BY <1>11, <2>1, <2>3, CountedType DEF SubmitPinned
    <2> QED
      BY <1>11, <2>2, <2>4 DEF SubmitPinned, TypeOK, slurm, daemon, world
  <1>12. CASE CtldRestart
    <2>1. faults' \in 0 .. FaultBudget
      BY <1>12 DEF CtldRestart, Fault, TypeOK
    <2> QED
      BY <1>12, <2>1 DEF CtldRestart, TypeOK, slurm, daemon
  <1>13. CASE Disable
    BY <1>13 DEF Disable, Fault, TypeOK, slurm, daemon, plugin
  <1>14. CASE Enable
    BY <1>14 DEF Enable, TypeOK, slurm, daemon, plugin
  <1>15. CASE Tick
    <2>1. nodes' \in Snapshots \cup {None}
      BY <1>15, OlderType DEF Tick, TypeOK, Snapshots
    <2>2. table' \in Tables \cup {None}
      BY <1>15, OlderType DEF Tick, TypeOK, Tables
    <2>3. /\ sincePoll' \in Nat /\ sinceScore' \in Nat
          /\ sinceWrite' \in 0 .. AgeCap + 1 /\ sinceEnforce' \in 0 .. AgeCap + 1
      BY <1>15, OlderType DEF Tick, TypeOK
    <2> QED
      BY <1>15, <2>1, <2>2, <2>3 DEF Tick, TypeOK, slurm, plugin, world
  <1>16. CASE UNCHANGED vars
    BY <1>16 DEF vars, slurm, daemon, plugin, world, TypeOK
  <1> QED
    BY <1>1, <1>2, <1>3, <1>4, <1>5, <1>6, <1>7, <1>8, <1>9, <1>10, <1>11, <1>12,
       <1>13, <1>14, <1>15, <1>16
    DEF Next, SjpdNext, PluginNext, FaultNext

(* Every variable keeps its type.                                            *)
THEOREM TypeCorrect == Spec => []TypeOK
  BY InitTypeOK, NextTypeOK, PTL DEF Spec

-----------------------------------------------------------------------------
(* The lags are bounded initially.                                           *)
LEMMA InitLags == Init => LagsBounded /\ EnforceIsRecent
  BY DEF Init, LagsBounded, EnforceIsRecent

(* The age of node state is handed on bounded at every step of its way: by   *)
(* the timeouts to Shared.nodes, by policy_max_age from there to a table.    *)
LEMMA NextLags == TypeOK /\ LagsBounded /\ [Next]_vars => LagsBounded'
  <1> SUFFICES ASSUME TypeOK, LagsBounded, [Next]_vars PROVE LagsBounded'
    OBVIOUS
  <1> USE ConstantsAssumption, NoneAssumption
  <1>1. CASE UNCHANGED <<up, poll, sincePoll, nodes, draft, table>>
    BY <1>1 DEF LagsBounded
  <1>2. CASE Start
    BY <1>2 DEF Start, LagsBounded, TypeOK
  <1>3. CASE Kill
    BY <1>3 DEF Kill, LagsBounded
  <1>4. CASE PollRead
    BY <1>4 DEF PollRead, LagsBounded
  <1>5. CASE PollPublish
    <2>1. nodes'.lag <= PollMax
      BY <1>5 DEF PollPublish, LagsBounded
    <2> QED
      BY <1>5, <2>1 DEF PollPublish, LagsBounded
  <1>6. CASE PollFail
    BY <1>6 DEF PollFail, LagsBounded
  <1>7. CASE Score
    <2>1. CASE UNCHANGED draft
      BY <1>7, <2>1 DEF Score, LagsBounded
    <2>2. CASE ScoreUsable /\ draft' = [free |-> nodes.free, lag |-> nodes.age + nodes.lag]
      <3>1. nodes \in Snapshots /\ nodes.age < PolicyMaxAge /\ nodes.lag <= PollMax
        BY <2>2 DEF ScoreUsable, Scorable, TypeOK, LagsBounded
      <3>2. draft'.lag < PolicyMaxAge + PollMax
        BY <2>2, <3>1 DEF Snapshots
      <3> QED
        BY <1>7, <3>2 DEF Score, LagsBounded
    <2> QED
      BY <1>7, <2>1, <2>2 DEF Score
  <1>8. CASE Write
    <2>1. table'.lag < PolicyMaxAge + PollMax
      BY <1>8 DEF Write, Rendered, LagsBounded
    <2> QED
      BY <1>8, <2>1 DEF Write, LagsBounded
  <1>9. CASE WriteLost
    BY <1>9 DEF WriteLost, LagsBounded
  <1>10. CASE Tick
    <2>1. poll' # None => sincePoll' <= PollMax
      BY <1>10 DEF Tick, Punctual, LagsBounded, TypeOK
    <2>2. nodes' # None => nodes # None /\ nodes'.lag = nodes.lag
      BY <1>10 DEF Tick, TypeOK, Snapshots
    <2>3. table' # None => table # None /\ table'.lag = table.lag
      BY <1>10 DEF Tick, TypeOK, Tables
    <2> QED
      BY <1>10, <2>1, <2>2, <2>3 DEF Tick, LagsBounded
  <1> QED
    BY <1>1, <1>2, <1>3, <1>4, <1>5, <1>6, <1>7, <1>8, <1>9, <1>10
    DEF Next, SjpdNext, PluginNext, FaultNext, NodesChange, SubmitUnpinned, SubmitPinned,
        CtldRestart, Disable, Enable, daemon, vars

(* Each step keeps sinceEnforce no older than the table.                     *)
LEMMA NextEnforce == TypeOK /\ EnforceIsRecent /\ [Next]_vars => EnforceIsRecent'
  <1> SUFFICES ASSUME TypeOK, EnforceIsRecent, [Next]_vars PROVE EnforceIsRecent'
    OBVIOUS
  <1> USE ConstantsAssumption, NoneAssumption
  <1>1. CASE UNCHANGED <<up, mode, table, sinceEnforce>>
    BY <1>1 DEF EnforceIsRecent
  <1>2. CASE Start
    <2>1. table # None => table.age \in Nat
      BY DEF TypeOK, Tables
    <2> QED
      BY <1>2, <2>1 DEF Start, EnforceIsRecent
  <1>3. CASE Kill
    BY <1>3 DEF Kill, EnforceIsRecent
  <1>4. CASE Write
    <2>1. table'.pinning => mode = "enforce"
      BY <1>4 DEF Write, Rendered
    <2>2. table'.age \in Nat
      BY <1>4 DEF Write, Rendered, TypeOK
    <2> QED
      BY <1>4, <2>1, <2>2 DEF Write, EnforceIsRecent
  <1>5. CASE Tick
    <2>1. up' /\ mode' = "enforce" => sinceEnforce' = 0
      BY <1>5 DEF Tick
    <2>2. table' # None /\ table'.pinning => sinceEnforce' <= table'.age
      <3> SUFFICES ASSUME table' # None, table'.pinning PROVE sinceEnforce' <= table'.age
        OBVIOUS
      <3>1. table \in Tables /\ table.pinning /\ table'.age = Older(table.age)
        BY <1>5 DEF Tick, TypeOK, Tables
      <3>2. table.age \in Nat /\ sinceEnforce <= table.age
        BY <3>1 DEF EnforceIsRecent, Tables
      <3>3. sinceEnforce' = 0 \/ sinceEnforce' = Older(sinceEnforce)
        BY <1>5 DEF Tick
      <3>4. Older(sinceEnforce) <= Older(table.age) /\ Older(table.age) \in Nat
        BY <3>2, OlderType DEF TypeOK
      <3> QED
        BY <3>1, <3>3, <3>4
    <2> QED
      BY <2>1, <2>2 DEF EnforceIsRecent
  <1> QED
    BY <1>1, <1>2, <1>3, <1>4, <1>5
    DEF Next, SjpdNext, PluginNext, FaultNext, NodesChange, PollRead, PollPublish,
        PollFail, Score, WriteLost, SubmitUnpinned, SubmitPinned, CtldRestart,
        Disable, Enable, daemon, vars

(* Only a pin charges a node, and it does so from a fresh table.             *)
LEMMA PinningIsSubmit ==
    ASSUME TypeOK, [Next]_vars, Pinning
    PROVE  \E size \in Sizes, n \in Nodes : SubmitPinned(size, n)
  <1>1. ~ (charged' = charged)
    BY DEF Pinning, TypeOK
  <1>2. ~ (charged' = [n \in Nodes |-> 0])
    BY DEF Pinning, TypeOK
  <1> QED
    BY <1>1, <1>2
    DEF Next, SjpdNext, PluginNext, FaultNext, NodesChange, Start, Kill, PollRead,
        PollPublish, PollFail, Score, Write, WriteLost, SubmitUnpinned, CtldRestart,
        Disable, Enable, Tick, plugin, vars

(* The node state behind a pin is younger than pin.max_age, policy_max_age   *)
(* and the longest poll together, whatever fails: no better bound is         *)
(* promised by the code, and no worse age is possible.                       *)
THEOREM PinAgeBound == Spec => PinStateAgeBounded
  <1>1. TypeOK /\ LagsBounded /\ [Next]_vars
          => (Pinning => table.age + table.lag < PinMaxAge + PolicyMaxAge + PollMax)
    <2> SUFFICES ASSUME TypeOK, LagsBounded, [Next]_vars, Pinning
                 PROVE  table.age + table.lag < PinMaxAge + PolicyMaxAge + PollMax
      OBVIOUS
    <2>1. table # None /\ table.age <= PinMaxAge
      BY PinningIsSubmit DEF SubmitPinned, TableReadable, Fresh, NodeDataRecent
    <2>2. table.age \in Nat /\ table.lag \in Nat
      BY <2>1 DEF TypeOK, Tables
    <2> QED
      BY <2>1, <2>2, ConstantsAssumption DEF LagsBounded
  <1> QED
    BY <1>1, InitTypeOK, NextTypeOK, InitLags, NextLags, PTL
    DEF Spec, PinStateAgeBounded

(* After the last moment of enforce mode, pins stop within pin.max_age.      *)
THEOREM PinsReleasable == Spec => PinsHaveAReleaser
  <1>1. TypeOK /\ EnforceIsRecent /\ [Next]_vars => (Pinning => sinceEnforce <= PinMaxAge)
    <2> SUFFICES ASSUME TypeOK, EnforceIsRecent, [Next]_vars, Pinning
                 PROVE  sinceEnforce <= PinMaxAge
      OBVIOUS
    <2>1. table # None /\ table.pinning /\ table.age <= PinMaxAge
      BY PinningIsSubmit DEF SubmitPinned, TableReadable, Fresh, NodeDataRecent
    <2>2. table.age \in Nat /\ sinceEnforce \in Nat /\ sinceEnforce <= table.age
      BY <2>1, OlderType DEF TypeOK, Tables, EnforceIsRecent
    <2> QED
      BY <2>1, <2>2, ConstantsAssumption
  <1> QED
    BY <1>1, InitTypeOK, NextTypeOK, InitLags, NextEnforce, PTL
    DEF Spec, PinsHaveAReleaser

-----------------------------------------------------------------------------
(* The cache is empty initially.                                             *)
LEMMA InitCache == Init => CacheAddsUp
  BY DEF Init, CacheAddsUp

(* While slurmctld does not restart, nothing but a new table resets the      *)
(* plugin's count, and a new table resets what is counted with it.           *)
LEMMA NextCache ==
    ASSUME "ctld" \notin Faults
    PROVE  TypeOK /\ CacheAddsUp /\ [Next]_vars => CacheAddsUp'
  <1> SUFFICES ASSUME TypeOK, CacheAddsUp, [Next]_vars PROVE CacheAddsUp'
    OBVIOUS
  <1> USE ConstantsAssumption, NoneAssumption
  <1>1. CASE UNCHANGED <<table, plugin>>
    BY <1>1 DEF CacheAddsUp, plugin
  <1>2. CASE loaded' = FALSE /\ charged' = [n \in Nodes |-> 0]
    BY <1>2 DEF CacheAddsUp
  <1>3. CASE SubmitUnpinned
    <2>1. CASE loaded
      BY <1>3, <2>1 DEF SubmitUnpinned, View, CacheAddsUp
    <2>2. CASE ~loaded
      <3>1. \A n \in Nodes : charged'[n] = 0 /\ room'[n] = table.free[n]
        BY <1>3, <2>2 DEF SubmitUnpinned, View, CacheAddsUp
      <3>2. table \in Tables /\ \A n \in Nodes : table.free[n] \in Int
        BY <1>3 DEF SubmitUnpinned, TableReadable, TypeOK, Tables, FreeMaps, Down
      <3>3. \A n \in Nodes : room'[n] + charged'[n] = table.free[n]
        BY <3>1, <3>2
      <3> QED
        BY <1>3, <3>1, <3>3 DEF SubmitUnpinned, TableReadable, CacheAddsUp
    <2> QED
      BY <2>1, <2>2 DEF TypeOK
  <1>4. ASSUME NEW size \in Sizes, NEW n \in Nodes, SubmitPinned(size, n)
        PROVE  CacheAddsUp'
    <2>1. size \in Nat /\ View[n] >= size
      BY <1>4 DEF SubmitPinned, TopRanked, Candidates
    <2>2. table \in Tables /\ table' = table /\ loaded' = TRUE
      BY <1>4 DEF SubmitPinned, TableReadable, TypeOK
    <2>3. View \in FreeMaps
      BY <2>2 DEF View, TypeOK, Tables
    <2>4. \A m \in Nodes : /\ View[m] \in Int /\ charged[m] \in Nat
                           /\ table.free[m] \in Int
      BY <2>2, <2>3 DEF FreeMaps, Down, TypeOK, Tables
    <2>5. \A m \in Nodes : /\ View[m] + charged[m] = table.free[m]
                           /\ charged[m] > 0 => View[m] >= 0
      <3>1. CASE loaded
        BY <2>4, <3>1 DEF View, CacheAddsUp
      <3>2. CASE ~loaded
        BY <2>4, <3>2 DEF View, CacheAddsUp
      <3> QED
        BY <3>1, <3>2
    <2>6. /\ room'[n] = View[n] - size
          /\ \A m \in Nodes : m # n => room'[m] = View[m]
      BY <1>4, <2>1, <2>3, CountedType DEF SubmitPinned
    <2>7. /\ charged'[n] = charged[n] + size
          /\ \A m \in Nodes : m # n => charged'[m] = charged[m]
      BY <1>4 DEF SubmitPinned, TypeOK
    <2>8. room'[n] + charged'[n] = table.free[n] /\ room'[n] >= 0
      BY <2>1, <2>4, <2>5, <2>6, <2>7
    <2>9. ASSUME NEW m \in Nodes
          PROVE  room'[m] + charged'[m] = table.free[m] /\ (charged'[m] > 0 => room'[m] >= 0)
      BY <2>5, <2>6, <2>7, <2>8
    <2> QED
      BY <2>2, <2>9 DEF CacheAddsUp
  <1>5. CASE Tick
    <2>1. table # None => table' # None /\ table'.free = table.free
      <3> SUFFICES ASSUME table # None PROVE table' # None /\ table'.free = table.free
        OBVIOUS
      <3>1. table \in Tables /\ table' = [table EXCEPT !.age = Older(@)]
        BY <1>5 DEF Tick, TypeOK
      <3>2. table.age \in Nat /\ Older(table.age) \in Nat
        BY <3>1, OlderType DEF Tables
      <3>3. table' \in Tables /\ table'.free = table.free
        BY <3>1, <3>2 DEF Tables
      <3> QED
        BY <3>3
    <2> QED
      BY <1>5, <2>1 DEF Tick, CacheAddsUp, plugin
  <1>6. ~CtldRestart
    BY DEF CtldRestart, Fault
  <1> QED
    BY <1>1, <1>2, <1>3, <1>4, <1>5, <1>6
    DEF Next, SjpdNext, PluginNext, FaultNext, NodesChange, Start, Kill, PollRead,
        PollPublish, PollFail, Score, Write, WriteLost, Disable, Enable, vars

(* As long as slurmctld keeps the plugin loaded, the jobs pinned from one    *)
(* table fit in the free space it publishes, on every node.                  *)
THEOREM PinsFit ==
    ASSUME "ctld" \notin Faults
    PROVE  Spec => []PinsFitTable
  <1>1. TypeOK /\ CacheAddsUp => PinsFitTable
    <2> SUFFICES ASSUME TypeOK, CacheAddsUp, NEW n \in Nodes, charged[n] > 0
                 PROVE  table # None /\ charged[n] <= table.free[n]
      BY DEF PinsFitTable
    <2>1. loaded
      BY DEF CacheAddsUp
    <2>2. table \in Tables
      BY <2>1 DEF CacheAddsUp, TypeOK
    <2>3. /\ room[n] \in Int /\ charged[n] \in Nat
          /\ table.free \in FreeMaps /\ table.free[n] \in Int
      BY <2>1, <2>2 DEF TypeOK, FreeMaps, Down, Tables
    <2>4. room[n] + charged[n] = table.free[n] /\ room[n] >= 0
      BY <2>1, <2>3 DEF CacheAddsUp
    <2> QED
      BY <2>2, <2>3, <2>4, NoneAssumption
  <1> QED
    BY <1>1, InitTypeOK, NextTypeOK, InitCache, NextCache, PTL DEF Spec

-----------------------------------------------------------------------------
(* Freshness.  What is asked of the settings: a table that may be as old as  *)
(* this when a score starts is not too old by the time the score's own is    *)
(* written, and a snapshot is replaced before it is too old to be scored.    *)
RefreshInTime ==
    \A age \in Nat : BeforeScore(age) =>
        age + ScoreMax <= PolicyMaxAge /\ age + ScoreMax <= PinMaxAge
PollsInTime == NodeInterval + PollMax < PolicyMaxAge /\ 2 * PollMax < PolicyMaxAge

(* Each change takes down one node at most.                                  *)
LEMMA NextDownCounted == TypeOK /\ DownCounted /\ [Next]_vars => DownCounted'
  <1> SUFFICES ASSUME TypeOK, DownCounted, [Next]_vars PROVE DownCounted'
    OBVIOUS
  <1>1. Cardinality(down) \in Nat /\ changes \in Nat /\ LoadChanges \in Nat
    BY FS_CardinalityType, ConstantsAssumption DEF DownCounted, TypeOK
  <1>2. CASE UNCHANGED <<down, changes>>
    BY <1>2 DEF DownCounted
  <1>3. CASE NodesChange
    <2>1. changes' = changes - 1
      BY <1>3 DEF NodesChange
    <2>2. CASE UNCHANGED down
      BY <1>1, <2>1, <2>2 DEF DownCounted
    <2>3. ASSUME NEW n \in Nodes, down' = down \ {n} \/ down' = down \cup {n}
          PROVE  IsFiniteSet(down') /\ Cardinality(down') <= Cardinality(down) + 1
      <3>1. CASE down' = down \ {n}
        <4>1. IsFiniteSet(down') /\ Cardinality(down') <= Cardinality(down)
          BY <3>1, FS_Subset DEF DownCounted
        <4>2. Cardinality(down') \in Nat
          BY <4>1, FS_CardinalityType
        <4> QED
          BY <1>1, <4>1, <4>2
      <3>2. CASE down' = down \cup {n}
        <4>1. /\ IsFiniteSet(down')
              /\ Cardinality(down') = Cardinality(down) \/ Cardinality(down') = Cardinality(down) + 1
          BY <3>2, FS_AddElement DEF DownCounted
        <4> QED
          BY <1>1, <4>1
      <3> QED
        BY <2>3, <3>1, <3>2
    <2>4. CASE \E n \in Nodes : down' = down \ {n} \/ down' = down \cup {n}
      <3>1. IsFiniteSet(down') /\ Cardinality(down') <= Cardinality(down) + 1
        BY <2>3, <2>4
      <3>2. Cardinality(down') \in Nat
        BY <3>1, FS_CardinalityType
      <3> QED
        BY <1>1, <2>1, <3>1, <3>2 DEF DownCounted
    <2> QED
      BY <1>3, <2>2, <2>4 DEF NodesChange
  <1> QED
    BY <1>2, <1>3
    DEF Next, SjpdNext, PluginNext, FaultNext, Start, Kill, PollRead, PollPublish, PollFail,
        Score, Write, WriteLost, SubmitUnpinned, SubmitPinned, CtldRestart, Disable, Enable,
        Tick, slurm, vars

(* With fewer changes than nodes, a poll sees a node that is up.             *)
LEMMA PollSeesUsable ==
    ASSUME TypeOK, DownCounted, Undisturbed
    PROVE  SomeUsable(NodeFree)
  <1>1. \E n \in Nodes : n \notin down
    <2>1. SUFFICES ASSUME Nodes \subseteq down PROVE FALSE
      OBVIOUS
    <2>2. down = Nodes
      BY <2>1 DEF TypeOK
    <2>3. Cardinality(Nodes) <= LoadChanges - changes
      BY <2>2 DEF DownCounted
    <2>4. Cardinality(Nodes) \in Nat /\ changes \in Nat /\ LoadChanges \in Nat
      BY FS_CardinalityType, ConstantsAssumption DEF TypeOK
    <2> QED
      BY <2>3, <2>4 DEF Undisturbed
  <1>2. ASSUME NEW n \in Nodes, n \notin down
        PROVE  NodeFree[n] # Down
    <2>1. load[n] \in Nat /\ Capacity[n] \in Nat
      BY ConstantsAssumption DEF TypeOK
    <2>2. NodeFree[n] = (IF load[n] > Capacity[n] THEN 0 ELSE Capacity[n] - load[n])
      BY <1>2 DEF NodeFree
    <2> QED
      BY <2>1, <2>2 DEF Down
  <1> QED
    BY <1>1, <1>2 DEF SomeUsable

(* A fault is counted for good.                                              *)
LEMMA StaysUndisturbed ==
    ASSUME TypeOK, [Next]_vars, Undisturbed'
    PROVE  Undisturbed /\ faults' = faults
  <1>1. /\ faults \in Nat /\ faults <= FaultBudget /\ FaultBudget \in Nat
        /\ changes \in Nat /\ LoadChanges \in Nat /\ Cardinality(Nodes) \in Nat
    BY FS_CardinalityType, ConstantsAssumption DEF TypeOK
  <1>2. /\ faults' = faults \/ faults' = faults - 1
        /\ changes' = changes \/ changes' = changes - 1
    BY DEF Next, SjpdNext, PluginNext, FaultNext, NodesChange, Start, Kill, PollRead, PollPublish,
        PollFail, Score, Write, WriteLost, SubmitUnpinned, SubmitPinned, CtldRestart, Disable,
        Enable, Tick, Fault, slurm, world, vars
  <1> QED
    BY <1>1, <1>2 DEF Undisturbed

(* The cadences are naturals.                                                *)
LEMMA Cadences ==
    /\ ScoreInterval \in Nat /\ ScoreMax \in Nat /\ NodeInterval \in Nat /\ PollMax \in Nat
    /\ PolicyMaxAge \in Nat /\ PinMaxAge \in Nat
  BY ConstantsAssumption

(* Starting the daemon keeps the threads punctual and the table refreshed.   *)
LEMMA QuietStart ==
    ASSUME TypeOK, Quiet, Start
    PROVE  Quiet'
  <1>1. /\ poll = None /\ nodes = None /\ draft = None /\ table = None
        /\ up' /\ sincePoll' = NodeInterval /\ sinceScore' = ScoreInterval
        /\ UNCHANGED <<poll, nodes, draft, table, disabled>>
    BY DEF Start, Quiet, ThreadsPunctual, world
  <1>2. ThreadsPunctual' /\ SnapshotRecent' /\ TableRefreshed'
    BY <1>1, Cadences DEF ThreadsPunctual, SnapshotRecent, TableRefreshed
  <1> QED
    BY <1>1, <1>2 DEF Quiet

(* So does reading the nodes.                                                *)
LEMMA QuietPollRead ==
    ASSUME TypeOK, DownCounted, Undisturbed, Quiet, PollRead
    PROVE  Quiet'
  <1>1. /\ poll = None /\ up /\ poll' = NodeFree /\ sincePoll' = 0 /\ NodeFree # None
        /\ UNCHANGED <<up, mode, nodes, draft, sinceScore, sinceWrite, table, disabled>>
    BY NodeFreeType, NoneAssumption DEF PollRead, world, TypeOK
  <1>2. ThreadsPunctual'
    BY <1>1, Cadences DEF Quiet, ThreadsPunctual
  <1>3. SnapshotRecent'
    <2>1. SomeUsable(poll')
      BY <1>1, PollSeesUsable
    <2>2. nodes # None => SomeUsable(nodes.free) /\ nodes.age <= sincePoll /\ nodes.age \in Nat
      BY <1>1 DEF Quiet, SnapshotRecent, TypeOK, Snapshots
    <2>3. /\ sincePoll \in Nat
          /\ sincePoll <= NodeInterval \/ sincePoll <= PollMax
      BY DEF TypeOK, Quiet, ThreadsPunctual
    <2>4. nodes # None => nodes.age <= 0 + NodeInterval \/ nodes.age <= 0 + PollMax
      BY <2>2, <2>3, Cadences
    <2>5. draft # None => nodes # None
      BY DEF Quiet, SnapshotRecent
    <2> QED
      BY <1>1, <2>1, <2>2, <2>4, <2>5 DEF SnapshotRecent
  <1>4. TableRefreshed'
    BY <1>1 DEF Quiet, TableRefreshed, Writing
  <1> QED
    BY <1>1, <1>2, <1>3, <1>4 DEF Quiet

(* So does publishing what was read.                                         *)
LEMMA QuietPollPublish ==
    ASSUME TypeOK, Quiet, PollPublish
    PROVE  Quiet'
  <1>1. /\ poll # None /\ up /\ poll' = None /\ nodes' \in Snapshots
        /\ nodes'.free = poll /\ nodes'.age = 0
        /\ UNCHANGED <<up, mode, sincePoll, draft, sinceScore, sinceWrite, table, disabled>>
    BY DEF PollPublish, world, TypeOK, Snapshots
  <1>2. ThreadsPunctual'
    BY <1>1 DEF Quiet, ThreadsPunctual
  <1>3. SnapshotRecent'
    <2>1. nodes' # None /\ SomeUsable(nodes'.free)
      BY <1>1, NoneAssumption DEF Quiet, SnapshotRecent
    <2>2. nodes'.age <= sincePoll'
      BY <1>1 DEF TypeOK
    <2> QED
      BY <1>1, <2>1, <2>2 DEF SnapshotRecent
  <1>4. TableRefreshed'
    BY <1>1, NoneAssumption DEF Quiet, TableRefreshed, Writing
  <1> QED
    BY <1>1, <1>2, <1>3, <1>4 DEF Quiet

(* A snapshot is scored, whatever its age then: the polls see to it.         *)
LEMMA AlwaysScored ==
    ASSUME PollsInTime, TypeOK, LagsBounded, Quiet, nodes # None
    PROVE  ScoreUsable
  <1>1. /\ nodes.age \in Nat /\ sincePoll \in Nat /\ SomeUsable(nodes.free)
        /\ sincePoll <= NodeInterval \/ sincePoll <= PollMax
        /\ poll # None => sincePoll <= PollMax
        /\ \/ nodes.age <= sincePoll
           \/ poll # None /\ (nodes.age <= sincePoll + NodeInterval \/ nodes.age <= sincePoll + PollMax)
    BY DEF TypeOK, Snapshots, LagsBounded, Quiet, ThreadsPunctual, SnapshotRecent
  <1>2. nodes.age < PolicyMaxAge
    BY <1>1, Cadences DEF PollsInTime
  <1> QED
    BY <1>1, <1>2 DEF ScoreUsable, Scorable, SomeUsable

(* What a table has aged by when a score renders the next.                   *)
LEMMA AgeBeforeScore ==
    ASSUME TypeOK, Quiet, draft = None, table # None
    PROVE  table.age \in Nat /\ table.age = sinceWrite /\ BeforeScore(table.age)
  <1>1. /\ table.age \in Nat /\ table.age = sinceWrite /\ sinceScore \in Nat
        /\ sinceScore <= ScoreInterval \/ sinceScore <= ScoreMax
        /\ \/ sinceWrite <= sinceScore
           \/ /\ sinceScore <= sinceWrite /\ sinceScore <= ScoreInterval
              /\ ~RefreshDue(sinceWrite - sinceScore)
    BY DEF TypeOK, Tables, Quiet, ThreadsPunctual, TableRefreshed
  <1> QED
    BY <1>1, Cadences DEF BeforeScore, RefreshDue

(* So does scoring.                                                          *)
LEMMA QuietScore ==
    ASSUME PollsInTime, TypeOK, LagsBounded, Quiet, Score
    PROVE  Quiet'
  <1>1. /\ draft = None /\ up /\ sinceScore' = 0
        /\ UNCHANGED <<up, mode, poll, sincePoll, nodes, table, disabled>>
    BY DEF Score, world
  <1>2. ~disabled'
    BY <1>1 DEF Quiet
  <1>3. CASE /\ ScoreUsable /\ sinceWrite' = 0
             /\ draft' = [free |-> nodes.free, lag |-> nodes.age + nodes.lag]
    <2>1. ThreadsPunctual'
      BY <1>1, <1>3, Cadences DEF Quiet, ThreadsPunctual
    <2>2. table # None => /\ nodes # None /\ Writing
                          /\ table.age \in Nat /\ BeforeScore(table.age)
      BY <1>1, AgeBeforeScore DEF Quiet, TableRefreshed
    <2>3. draft' # None /\ nodes # None
      <3>1. nodes \in Snapshots
        BY <1>3 DEF ScoreUsable, Scorable, TypeOK
      <3>2. draft' \in Drafts
        BY <1>3, <3>1 DEF Drafts, Snapshots
      <3> QED
        BY <3>1, <3>2, NoneAssumption
    <2>4. table # None => table.age - 0 = table.age
      BY <2>2
    <2>5. TableRefreshed'
      BY <1>1, <2>2, <2>3, <2>4 DEF TableRefreshed, Writing
    <2>6. SnapshotRecent'
      BY <1>1, <2>3 DEF Quiet, SnapshotRecent
    <2> QED
      BY <1>2, <2>1, <2>5, <2>6 DEF Quiet
  <1>4. CASE /\ ~ (ScoreUsable /\ (nodes.free # lastFree \/ RefreshDue(sinceWrite)))
             /\ UNCHANGED <<draft, lastFree, sinceWrite>>
    <2>1. ThreadsPunctual'
      BY <1>1, <1>4, Cadences DEF Quiet, ThreadsPunctual
    <2>2. table # None => /\ nodes # None /\ Writing /\ ~RefreshDue(sinceWrite)
                          /\ table.age = sinceWrite /\ sinceWrite \in Nat
      BY <1>1, <1>4, AlwaysScored, AgeBeforeScore DEF Quiet, TableRefreshed
    <2>3. table # None => sinceWrite - 0 = sinceWrite /\ 0 <= sinceWrite /\ 0 <= ScoreInterval
      BY <2>2, Cadences
    <2>4. TableRefreshed'
      BY <1>1, <1>4, <2>2, <2>3 DEF TableRefreshed, Writing
    <2>5. SnapshotRecent'
      BY <1>1, <1>4 DEF Quiet, SnapshotRecent
    <2> QED
      BY <1>2, <2>1, <2>4, <2>5 DEF Quiet
  <1> QED
    BY <1>3, <1>4 DEF Score

(* So does writing the table.                                                *)
LEMMA QuietWrite ==
    ASSUME TypeOK, Quiet, Write
    PROVE  Quiet'
  <1>1. /\ up /\ draft # None /\ Writing /\ draft' = None
        /\ table' = Rendered
        /\ UNCHANGED <<up, mode, poll, sincePoll, nodes, sinceScore, sinceWrite, disabled>>
    BY DEF Write, world
  <1>2. SnapshotRecent' /\ ~disabled' /\ ThreadsPunctual'
    BY <1>1 DEF Quiet, SnapshotRecent, ThreadsPunctual
  <1>3. table'.age = sinceScore /\ sinceScore = sinceWrite /\ sinceScore \in Nat
    BY <1>1 DEF Rendered, Quiet, ThreadsPunctual, TypeOK
  <1>4. nodes # None
    BY <1>1 DEF Quiet, SnapshotRecent
  <1>5. TableRefreshed'
    BY <1>1, <1>3, <1>4 DEF TableRefreshed, Writing
  <1> QED
    BY <1>2, <1>5 DEF Quiet

(* Without a fault a write is lost only in observe, where none is ever made. *)
LEMMA QuietWriteLost ==
    ASSUME TypeOK, Quiet, WriteLost, faults' = faults
    PROVE  Quiet'
  <1>1. faults \in Nat
    BY DEF TypeOK
  <1>2. /\ up /\ draft # None /\ ~Writing /\ draft' = None
        /\ UNCHANGED <<up, mode, poll, sincePoll, nodes, sinceScore, sinceWrite, table, disabled>>
    BY <1>1 DEF WriteLost, Fault
  <1>3. table = None
    BY <1>2 DEF Quiet, TableRefreshed
  <1>4. ThreadsPunctual' /\ SnapshotRecent' /\ TableRefreshed' /\ ~disabled'
    BY <1>2, <1>3 DEF Quiet, ThreadsPunctual, SnapshotRecent, TableRefreshed
  <1> QED
    BY <1>4 DEF Quiet

(* So does a second that passes.                                             *)
LEMMA QuietTick ==
    ASSUME RefreshInTime, TypeOK, Quiet, Tick
    PROVE  Quiet'
  <1>1. UNCHANGED <<up, mode, poll, draft, disabled>>
    BY DEF Tick, world
  <1>2. /\ sincePoll \in Nat /\ sinceScore \in Nat /\ sinceWrite \in Nat
        /\ poll # None \/ nodes # None \/ draft # None \/ table # None => up
        /\ sincePoll <= NodeInterval \/ sincePoll <= PollMax
        /\ sinceScore <= ScoreInterval \/ sinceScore <= ScoreMax
        /\ draft # None => sinceScore <= ScoreMax /\ sinceWrite = sinceScore
    BY OlderType DEF TypeOK, Quiet, ThreadsPunctual
  <1>3. ScoreMax <= PolicyMaxAge
    BY Cadences DEF RefreshInTime, BeforeScore
  <1>4. CASE ~up
    <2>1. /\ poll = None /\ nodes = None /\ draft = None /\ table = None
          /\ UNCHANGED <<nodes, table, sincePoll, sinceScore, sinceWrite>>
      BY <1>2, <1>4 DEF Tick
    <2>2. ThreadsPunctual' /\ SnapshotRecent' /\ TableRefreshed' /\ ~disabled'
      BY <1>1, <1>2, <2>1 DEF Quiet, ThreadsPunctual, SnapshotRecent, TableRefreshed
    <2> QED
      BY <2>2 DEF Quiet
  <1>5. CASE up
    <2>1. /\ Punctual /\ sincePoll' = sincePoll + 1 /\ sinceScore' = sinceScore + 1
          /\ sinceWrite' = Older(sinceWrite)
      BY <1>5 DEF Tick
    <2>2. /\ nodes' # None => /\ nodes # None /\ nodes'.free = nodes.free
                              /\ nodes.age \in Nat /\ nodes'.age = Older(nodes.age)
          /\ nodes # None => nodes' # None
      <3>1. CASE nodes = None
        BY <3>1 DEF Tick
      <3>2. CASE nodes # None
        <4>1. nodes \in Snapshots /\ nodes' = [nodes EXCEPT !.age = Older(@)]
          BY <3>2 DEF Tick, TypeOK
        <4>2. nodes' \in Snapshots
          BY <4>1, OlderType DEF Snapshots
        <4> QED
          BY <3>2, <4>1, <4>2, NoneAssumption DEF Snapshots
      <3> QED
        BY <3>1, <3>2
    <2>3. /\ table' # None => table # None
          /\ table # None => table.age \in Nat /\ table'.age = Older(table.age)
      <3>1. CASE table = None
        BY <3>1 DEF Tick
      <3>2. CASE table # None
        <4>1. table \in Tables /\ table' = [table EXCEPT !.age = Older(@)]
          BY <3>2 DEF Tick, TypeOK
        <4> QED
          BY <3>2, <4>1 DEF Tables
      <3> QED
        BY <3>1, <3>2
    <2>4. ThreadsPunctual'
      <3>1. sincePoll + 1 <= NodeInterval \/ sincePoll + 1 <= PollMax
        BY <1>2, <2>1, Cadences DEF Punctual
      <3>2. sinceScore + 1 <= ScoreInterval \/ sinceScore + 1 <= ScoreMax
        BY <1>2, <2>1, Cadences DEF Punctual
      <3>3. draft # None => /\ sinceScore + 1 <= ScoreMax
                            /\ Older(sinceWrite) = sinceScore + 1
        BY <1>2, <1>3, <2>1, Cadences DEF Punctual, Older, AgeCap
      <3> QED
        BY <1>1, <1>5, <2>1, <3>1, <3>2, <3>3 DEF ThreadsPunctual
    <2>5. SnapshotRecent'
      <3>1. nodes # None => Older(nodes.age) <= nodes.age + 1 /\ Older(nodes.age) \in Nat
        BY <2>2, Cadences DEF Older, AgeCap
      <3>2. nodes # None =>
               \/ Older(nodes.age) <= sincePoll + 1
               \/ /\ poll # None
                  /\ \/ Older(nodes.age) <= sincePoll + 1 + NodeInterval
                     \/ Older(nodes.age) <= sincePoll + 1 + PollMax
        <4>1. nodes # None =>
                 /\ nodes.age \in Nat
                 /\ \/ nodes.age <= sincePoll
                    \/ /\ poll # None
                       /\ \/ nodes.age <= sincePoll + NodeInterval
                          \/ nodes.age <= sincePoll + PollMax
          BY <2>2 DEF Quiet, SnapshotRecent
        <4> QED
          BY <1>2, <3>1, <4>1, Cadences
      <3> QED
        BY <1>1, <2>1, <2>2, <3>2 DEF Quiet, SnapshotRecent
    <2>6. ASSUME table # None
          PROVE  /\ nodes' # None /\ Writing'
                 /\ table.age \in Nat /\ table'.age = Older(table.age)
                 /\ (draft = None => table.age = sinceWrite)
      BY <1>1, <2>2, <2>3, <2>6 DEF Quiet, TableRefreshed, Writing
    <2>7. ASSUME table # None, draft = None
          PROVE  \/ Older(sinceWrite) <= sinceScore + 1
                 \/ /\ sinceScore + 1 <= Older(sinceWrite) /\ sinceScore + 1 <= ScoreInterval
                    /\ ~RefreshDue(Older(sinceWrite) - (sinceScore + 1))
      <3>1. \/ sinceWrite <= sinceScore
            \/ /\ sinceScore <= sinceWrite /\ sinceScore <= ScoreInterval
               /\ ~RefreshDue(sinceWrite - sinceScore)
        BY <2>7 DEF Quiet, TableRefreshed
      <3>2. sinceScore < ScoreInterval
        BY <2>1, <2>7 DEF Punctual
      <3> QED
        BY <1>2, <3>1, <3>2, Cadences DEF RefreshDue, Older, AgeCap
    <2>8. ASSUME table # None, draft # None
          PROVE  sinceScore + 1 <= Older(table.age) /\ BeforeScore(Older(table.age) - (sinceScore + 1))
      <3> DEFINE age == table.age - sinceScore
      <3>1. table.age \in Nat /\ sinceScore <= table.age /\ BeforeScore(age)
        BY <2>6, <2>8 DEF Quiet, TableRefreshed
      <3>2. age \in Nat
        BY <1>2, <3>1
      <3>3. age + ScoreMax <= PolicyMaxAge
        BY <3>1, <3>2 DEF RefreshInTime
      <3>4. sinceScore < ScoreMax
        BY <2>1, <2>8 DEF Punctual
      <3>5. Older(table.age) = table.age + 1
        BY <1>2, <3>1, <3>3, <3>4, Cadences DEF Older, AgeCap
      <3>6. Older(table.age) - (sinceScore + 1) = age
        BY <1>2, <3>1, <3>5
      <3> QED
        BY <1>2, <3>1, <3>5, <3>6
    <2>9. TableRefreshed'
      BY <1>1, <2>1, <2>3, <2>6, <2>7, <2>8 DEF TableRefreshed
    <2> QED
      BY <1>1, <2>4, <2>5, <2>9 DEF Quiet
  <1> QED
    BY <1>4, <1>5

(* The table is kept fresh initially.                                        *)
LEMMA InitKeptFresh == Init => KeptFresh
  <1> SUFFICES ASSUME Init PROVE KeptFresh
    OBVIOUS
  <1>1. DownCounted
    BY FS_EmptySet, ConstantsAssumption DEF Init, DownCounted
  <1>2. Quiet
    BY Cadences DEF Init, Quiet, ThreadsPunctual, SnapshotRecent, TableRefreshed
  <1> QED
    BY <1>1, <1>2 DEF KeptFresh

(* Each step keeps it so.                                                    *)
LEMMA NextKeptFresh ==
    ASSUME RefreshInTime, PollsInTime
    PROVE  TypeOK /\ LagsBounded /\ KeptFresh /\ [Next]_vars => KeptFresh'
  <1> SUFFICES ASSUME TypeOK, LagsBounded, KeptFresh, [Next]_vars PROVE KeptFresh'
    OBVIOUS
  <1>1. DownCounted'
    BY NextDownCounted DEF KeptFresh
  <1> SUFFICES ASSUME Undisturbed' PROVE Quiet'
    BY <1>1 DEF KeptFresh
  <1>2. /\ DownCounted /\ Undisturbed /\ Quiet /\ faults' = faults
        /\ faults \in Nat /\ ~disabled
    BY StaysUndisturbed DEF KeptFresh, Quiet, TypeOK
  <1>3. CASE UNCHANGED <<up, mode, poll, sincePoll, nodes, draft, sinceScore, sinceWrite,
                         table, disabled>>
    <2>1. ThreadsPunctual' /\ SnapshotRecent' /\ TableRefreshed' /\ ~disabled'
      BY <1>2, <1>3 DEF Quiet, ThreadsPunctual, SnapshotRecent, TableRefreshed, Writing
    <2> QED
      BY <2>1 DEF Quiet
  <1>4. CASE Start
    BY <1>2, <1>4, QuietStart
  <1>5. CASE PollRead
    BY <1>2, <1>5, QuietPollRead
  <1>6. CASE PollPublish
    BY <1>2, <1>6, QuietPollPublish
  <1>7. CASE Score
    BY <1>2, <1>7, QuietScore
  <1>8. CASE Write
    BY <1>2, <1>8, QuietWrite
  <1>9. CASE WriteLost
    BY <1>2, <1>9, QuietWriteLost
  <1>10. CASE Tick
    BY <1>2, <1>10, QuietTick
  <1>11. ~FaultNext
    BY <1>2 DEF FaultNext, Kill, PollFail, CtldRestart, Disable, Enable, Fault
  <1> QED
    BY <1>3, <1>4, <1>5, <1>6, <1>7, <1>8, <1>9, <1>10, <1>11
    DEF Next, SjpdNext, PluginNext, NodesChange, SubmitUnpinned, SubmitPinned,
        daemon, world, vars

(* As long as nothing goes wrong, score_once's refresh keeps the table in    *)
(* use: with cadences that leave it time, the plugin never finds it stale,   *)
(* nor its node data too old for a pin, at any moment between two writes.    *)
THEOREM RefreshKeepsFresh ==
    ASSUME RefreshInTime, PollsInTime
    PROVE  Spec => []TableNeverStale
  <1>1. TypeOK /\ KeptFresh => TableNeverStale
    <2> SUFFICES ASSUME TypeOK, KeptFresh, Undisturbed, table # None
                 PROVE  Fresh(table)
      BY DEF TableNeverStale
    <2>1. /\ Quiet /\ table.age \in Nat /\ sinceScore \in Nat
      BY DEF KeptFresh, TypeOK, Tables
    <2>2. CASE draft = None
      <3>1. BeforeScore(table.age)
        BY <2>1, <2>2, AgeBeforeScore
      <3> QED
        BY <2>1, <3>1, Cadences DEF RefreshInTime, Fresh, NotStale, NodeDataRecent
    <2>3. CASE draft # None
      <3> DEFINE age == table.age - sinceScore
      <3>1. sinceScore <= table.age /\ BeforeScore(age) /\ sinceScore <= ScoreMax
        BY <2>1, <2>3 DEF Quiet, TableRefreshed, ThreadsPunctual
      <3>2. age \in Nat
        BY <2>1, <3>1
      <3>3. age + ScoreMax <= PolicyMaxAge /\ age + ScoreMax <= PinMaxAge
        BY <3>1, <3>2 DEF RefreshInTime
      <3> QED
        BY <2>1, <3>1, <3>3, Cadences DEF Fresh, NotStale, NodeDataRecent
    <2> QED
      BY <2>2, <2>3
  <1> QED
    BY <1>1, InitTypeOK, NextTypeOK, InitLags, NextLags, InitKeptFresh, NextKeptFresh, PTL
    DEF Spec
=============================================================================
