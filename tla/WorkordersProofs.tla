------------------------- MODULE WorkordersProofs -------------------------
(***************************************************************************)
(* Type correctness of Workorders, the claims of the queue loop, the       *)
(* permits of the semaphore, the phases of a build task, the slot of a     *)
(* client, and the safety theorems that follow from the inductive          *)
(* invariant they make up; then what a build task leaves behind, its       *)
(* results, the names of its containers and the two gauges; Workorders     *)
(* implements WorkerPool; and max_active_workorders bounds the orders in   *)
(* flight. All of it for every number of orders, clients and workers.      *)
(***************************************************************************)
EXTENDS Workorders, TLAPS, FiniteSetTheorems

(***************************************************************************)
(* Types.                                                                  *)
(***************************************************************************)
\* The initial values have their types.
LEMMA TypeInit == Init => TypeOK
  BY BoundAssumption, ClientAssumption, WorkerAssumption, DepthAssumption
  DEF Init, TypeOK, Blank, Status, Gone, SubmitStep, TaskStep, Goal,
      CancelStep, ContainerState, Orders, NoOrder

\* A step of process_workorder moves its own task to a step the function has,
\* and aims at a status it can write.
LEMMA TaskTyped ==
  ASSUME TypeOK, NEW o \in Orders, TaskNext(o)
  PROVE  task' \in [Orders -> TaskStep] /\ goal' \in [Orders -> Goal]
<1>1. task \in [Orders -> TaskStep] /\ goal \in [Orders -> Goal]
  BY Zenon DEF TypeOK
<1>2. \E step \in TaskStep : task' = [task EXCEPT ![o] = step]
  <2>1. CASE TaskSet(o) \/ TaskWrite(o)
    BY <2>1, Zenon DEF TaskSet, TaskWrite, Goto, AfterStatus, TaskStep
  <2>2. CASE ~(TaskSet(o) \/ TaskWrite(o))
    BY <2>2, Zenon DEF TaskNext, TaskAdvance, TaskSkip, TaskBegin, TaskImage,
       TaskClone, TaskStage, TaskStart, TaskRecord, TaskAttach, TaskPanic,
       TaskWait, TaskTimeout, TaskWaitError, TaskIngest, TaskAnnounce,
       TaskStore, TaskCleanup, TaskRemove, Release, Aim, Goto, TaskStep
  <2> QED
    BY <2>1, <2>2, Zenon
<1>3. goal' = goal \/ \E what \in Goal : goal' = [goal EXCEPT ![o] = what]
  BY Zenon DEF TaskNext, TaskAdvance, TaskSkip, TaskBegin, TaskImage, TaskSet,
     TaskClone, TaskWrite, TaskStage, TaskStart, TaskRecord, TaskAttach,
     TaskPanic, TaskWait, TaskTimeout, TaskWaitError, TaskIngest,
     TaskAnnounce, TaskStore, TaskCleanup, TaskRemove, Aim, Goal
<1> QED
  BY <1>1, <1>2, <1>3, Zenon

\* The map stays a map of statuses when a task writes its order's.
LEMMA SetTyped ==
  ASSUME TypeOK, NEW o \in Orders, TaskSet(o)
  PROVE  status' \in [Orders -> Status]
<1>1. status \in [Orders -> Status] /\ goal[o] \in Goal
  BY Zenon DEF TypeOK
<1>2. StatusOf(goal[o]) \in Status
  BY <1>1, Zenon DEF StatusOf, Goal, Status, InFlightStatus, TerminalStatus
<1>3. status' = status \/ status' = [status EXCEPT ![o] = StatusOf(goal[o])]
  BY Zenon DEF TaskSet
<1> QED
  BY <1>1, <1>2, <1>3, Zenon

\* Every action keeps every variable in its range: the handlers, the queue
\* loop, the build task, the saver, eviction, and a crash with its restart.
LEMMA TypeStep == TypeOK /\ [Next]_vars => TypeOK'
<1> SUFFICES ASSUME TypeOK, [Next]_vars PROVE TypeOK'
  OBVIOUS
<1> USE ClientAssumption
    DEF TypeOK, memVars, taskVars, diskVars, gaugeVars, historyVars,
        Status, InFlightStatus, TerminalStatus, Gone, SubmitStep, TaskStep,
        Goal, CancelStep, ContainerState
<1>1. ASSUME NEW o \in Orders, SubmitArrive(o) PROVE TypeOK'
  BY <1>1, Zenon DEF SubmitArrive
<1>2. ASSUME NEW o \in Orders, SubmitCheck(o) PROVE TypeOK'
  BY <1>2, Zenon DEF SubmitCheck
<1>3. ASSUME NEW o \in Orders, SubmitConflict(o) PROVE TypeOK'
  BY <1>3, Zenon DEF SubmitConflict
<1>4. ASSUME NEW o \in Orders, SubmitInsert(o) PROVE TypeOK'
  BY <1>4 DEF SubmitInsert
<1>5. ASSUME NEW o \in Orders, SubmitActivate(o) PROVE TypeOK'
  BY <1>5, Zenon DEF SubmitActivate
<1>6. ASSUME NEW o \in Orders, SubmitCount(o) PROVE TypeOK'
  BY <1>6, DepthAssumption DEF SubmitCount
<1>7. ASSUME NEW o \in Orders, SubmitSave(o) PROVE TypeOK'
  BY <1>7 DEF SubmitSave, WriteDisk
<1>8. ASSUME NEW o \in Orders, CancelMark(o) PROVE TypeOK'
  BY <1>8, ZenonT(60) DEF CancelMark
<1>9. ASSUME NEW o \in Orders, CancelClear(o) PROVE TypeOK'
  BY <1>9, DepthAssumption DEF CancelClear
<1>10. ASSUME NEW o \in Orders, CancelStop(o) PROVE TypeOK'
  BY <1>10 DEF CancelStop, StopContainer
<1>11. ASSUME NEW o \in Orders, LoopPick(o) PROVE TypeOK'
  BY <1>11, Zenon DEF LoopPick
<1>12. ASSUME NEW o \in Orders, LoopClaim(o) PROVE TypeOK'
  BY <1>12, DepthAssumption DEF LoopClaim
<1>13. ASSUME NEW o \in Orders, LoopMiss(o) PROVE TypeOK'
  BY <1>13, Zenon DEF LoopMiss
<1>14. ASSUME NEW o \in Orders, LoopSpawn(o) PROVE TypeOK'
  BY <1>14 DEF LoopSpawn
<1>15. ASSUME NEW o \in Orders, TaskNext(o) PROVE TypeOK'
  <2>1. task' \in [Orders -> TaskStep] /\ goal' \in [Orders -> Goal]
    BY <1>15, TaskTyped, Zenon
  <2>2. CASE TaskSkip(o) \/ TaskPanic(o)
    BY <2>1, <2>2, SMTT(40) DEF TaskSkip, TaskPanic, Release
  <2>3. CASE TaskBegin(o) \/ TaskAnnounce(o)
    BY <2>1, <2>3, SMTT(40) DEF TaskBegin, TaskAnnounce
  <2>4. CASE TaskImage(o) \/ TaskAttach(o) \/ TaskIngest(o)
    BY <2>1, <2>4 DEF TaskImage, TaskAttach, TaskIngest
  <2>5. CASE TaskSet(o)
    BY <2>1, <2>5, SetTyped, Zenon DEF TaskSet
  <2>6. CASE TaskClone(o)
    BY <2>1, <2>6, Zenon DEF TaskClone
  <2>7. CASE TaskWrite(o)
    <3>1. disk' \in [Orders -> Status]
      BY <2>7 DEF TaskWrite, WriteDisk
    <3>2. snap' \in [Orders \cup {NoOrder} -> [Orders -> Status]]
      BY <2>7, Zenon DEF TaskWrite, Blank
    <3> QED
      BY <2>1, <2>7, <3>1, <3>2, ZenonT(60) DEF TaskWrite
  <2>8. CASE TaskStage(o)
    BY <2>1, <2>8 DEF TaskStage
  <2>9. CASE TaskStart(o)
    <3>1. container' \in [Orders -> ContainerState]
      <4> HIDE DEF TypeOK, ContainerState
      <4>1. container' = container \/ \E c \in ContainerState :
                                         container' = [container EXCEPT ![o] = c]
        BY <2>9, Zenon DEF TaskStart, ContainerState
      <4>2. container \in [Orders -> ContainerState]
        BY Zenon DEF TypeOK
      <4> QED
        BY <4>1, <4>2, Zenon
    <3> QED
      BY <2>1, <2>9, <3>1, ZenonT(60) DEF TaskStart
  <2>10. CASE TaskRecord(o)
    BY <2>1, <2>10 DEF TaskRecord
  <2>15. CASE TaskCleanup(o)
    BY <2>1, <2>15, ZenonT(60) DEF TaskCleanup
  <2>11. CASE TaskWait(o) \/ TaskWaitError(o)
    BY <2>1, <2>11, SMTT(40) DEF TaskWait, TaskWaitError
  <2>12. CASE TaskTimeout(o)
    BY <2>1, <2>12, SMTT(40) DEF TaskTimeout, StopContainer
  <2>13. CASE TaskStore(o)
    BY <2>1, <2>13, SMTT(40) DEF TaskStore
  <2>14. CASE TaskRemove(o)
    BY <2>1, <2>14, SMTT(40) DEF TaskRemove, Release
  <2> QED
    BY <1>15, <2>2, <2>3, <2>4, <2>5, <2>6, <2>7, <2>8, <2>9, <2>10, <2>11,
       <2>12, <2>13, <2>14, <2>15, ZenonT(60) DEF TaskNext, TaskAdvance
<1>16. ASSUME NEW o \in Orders, ContainerExit(o) PROVE TypeOK'
  BY <1>16 DEF ContainerExit
<1>17. ASSUME LoopSleep PROVE TypeOK'
  BY <1>17, Zenon DEF LoopSleep, vars
<1>18. ASSUME SaveResults PROVE TypeOK'
  BY <1>18, Zenon DEF SaveResults
<1>19. ASSUME SaveClone PROVE TypeOK'
  BY <1>19, Zenon DEF SaveClone
<1>20. ASSUME SaveWrite PROVE TypeOK'
  BY <1>20, SMTT(40) DEF SaveWrite, WriteDisk, Blank
<1>21. ASSUME Evict PROVE TypeOK'
  BY <1>21, SMTT(40) DEF Evict, EvictWorkorders
<1>22. ASSUME Crash PROVE TypeOK'
  BY <1>22, BoundAssumption, WorkerAssumption, DepthAssumption, SMTT(40)
  DEF Crash, load_workorders, InFlight, Blank
<1>23. ASSUME UNCHANGED vars PROVE TypeOK'
  BY <1>23, Zenon DEF vars
<1>24. ASSUME NEW o \in Orders, SubmitDrop(o) PROVE TypeOK'
  BY <1>24, ZenonT(60) DEF SubmitDrop
<1>25. ASSUME NEW o \in Orders, CancelDrop(o) PROVE TypeOK'
  BY <1>25, ZenonT(60) DEF CancelDrop
<1> QED
  BY <1>1, <1>2, <1>3, <1>4, <1>5, <1>6, <1>7, <1>8, <1>9, <1>10, <1>11,
     <1>12, <1>13, <1>14, <1>15, <1>16, <1>17, <1>18, <1>19, <1>20, <1>21,
     <1>22, <1>23, <1>24, <1>25, ZenonT(60)
  DEF Next, SubmitNext, SubmitAdvance, CancelNext, CancelAdvance, LoopNext, SaverNext

\* Every variable keeps its range through every submission, build,
\* cancellation, eviction, save and restart.
THEOREM TypeCorrect == Spec => []TypeOK
  BY TypeInit, TypeStep, PTL DEF Spec

(***************************************************************************)
(* What the actions that matter little to an invariant leave alone.        *)
(***************************************************************************)

\* A step of a build task that touches neither map, files nor clones.
PlainMove(o) ==
    \/ TaskSkip(o) \/ TaskBegin(o) \/ TaskImage(o) \/ TaskStage(o)
    \/ TaskStart(o) \/ TaskRecord(o) \/ TaskAttach(o) \/ TaskPanic(o)
    \/ TaskWait(o) \/ TaskTimeout(o) \/ TaskWaitError(o) \/ TaskIngest(o)
    \/ TaskAnnounce(o) \/ TaskStore(o) \/ TaskCleanup(o) \/ TaskRemove(o)

\* Plain moves start from a running task and move only that task.
LEMMA PlainMoveFrame ==
  ASSUME TypeOK, NEW o \in Orders, PlainMove(o)
  PROVE  /\ task[o] \notin {"none", "panicked", "set", "clone", "write"}
         /\ UNCHANGED <<submit, status, loop, disk, snap>>
         /\ \A p \in Orders \ {o} : task'[p] = task[p] /\ goal'[p] = goal[p]
<1> USE DEF TypeOK, memVars, diskVars, taskVars
<1>1. CASE TaskSkip(o)
  BY <1>1, Zenon DEF TaskSkip, Release, Goto
<1>2. CASE TaskBegin(o)
  BY <1>2, Zenon DEF TaskBegin, Goto
<1>3. CASE TaskImage(o)
  BY <1>3, Zenon DEF TaskImage, Aim, Goto
<1>4. CASE TaskStage(o)
  BY <1>4, Zenon DEF TaskStage, Goto, Aim
<1>5. CASE TaskStart(o)
  BY <1>5, Zenon DEF TaskStart, Goto, Aim
<1>6. CASE TaskRecord(o)
  BY <1>6, Zenon DEF TaskRecord, Goto
<1>7. CASE TaskAttach(o)
  BY <1>7, Zenon DEF TaskAttach, Goto
<1>8. CASE TaskPanic(o)
  BY <1>8, Zenon DEF TaskPanic, Release, Goto
<1>9. CASE TaskWait(o)
  BY <1>9, Zenon DEF TaskWait, Goto
<1>10. CASE TaskTimeout(o)
  BY <1>10, Zenon DEF TaskTimeout, Goto
<1>11. CASE TaskWaitError(o)
  BY <1>11, Zenon DEF TaskWaitError, Goto
<1>12. CASE TaskIngest(o)
  BY <1>12, Zenon DEF TaskIngest, Aim, Goto
<1>13. CASE TaskAnnounce(o)
  BY <1>13, Zenon DEF TaskAnnounce, Goto
<1>14. CASE TaskStore(o)
  BY <1>14, Zenon DEF TaskStore, Goto
<1>15. CASE TaskCleanup(o)
  BY <1>15, Zenon DEF TaskCleanup, Goto
<1>16. CASE TaskRemove(o)
  BY <1>16, Zenon DEF TaskRemove, Release, Goto
<1> QED
  BY <1>1, <1>2, <1>3, <1>4, <1>5, <1>6, <1>7, <1>8, <1>9, <1>10, <1>11, <1>12, <1>13, <1>14, <1>15, <1>16, Zenon DEF PlainMove

(***************************************************************************)
(* No order is claimed twice. ClaimedOnce needs two facts about orders     *)
(* before their insertion and about the order the loop holds: an order     *)
(* that was never inserted is nowhere (not in the map, in a clone or in    *)
(* the file), and no task works on the order the loop is about to spawn.   *)
(***************************************************************************)
Uninserted == {"new", "arrived", "locked"}

\* An order before its insertion appears nowhere.
Unseen(o) ==
    /\ status[o] = "absent" /\ disk[o] = "absent"
    /\ \A w \in Orders \cup {NoOrder} : snap[w][o] = "absent"
    /\ task[o] = "none"
    /\ loop.order # o

ClaimInv ==
    /\ ClaimedOnce
    /\ \A o \in Orders : loop.at = "claimed" /\ loop.order = o => task[o] = "none"
    /\ \A o \in Orders : submit[o] \in Uninserted => Unseen(o)

claimVars == <<submit, status, task, loop, disk, snap>>

\* Nothing is claimed and no order has been seen when the server first starts.
LEMMA ClaimInit == Init => ClaimInv
  BY DEF Init, ClaimInv, ClaimedOnce, Unseen, Uninserted, Blank, NoOrder, Orders

\* ClaimInv depends only on claimVars.
LEMMA ClaimStutter == ClaimInv /\ UNCHANGED claimVars => ClaimInv'
  BY DEF ClaimInv, ClaimedOnce, Unseen, claimVars

\* A step of a task that moves on and leaves map, files and clones alone.
LEMMA ClaimMove ==
  ASSUME TypeOK, ClaimInv, NEW o \in Orders, task[o] # "none",
         UNCHANGED <<submit, status, loop, disk, snap>>,
         \A p \in Orders \ {o} : task'[p] = task[p]
  PROVE  ClaimInv'
  BY DEF ClaimInv, ClaimedOnce, Unseen, TypeOK

\* No action makes an order pending while a task or the loop holds it: only
\* submission and a restart, which ends all tasks, make orders pending.
LEMMA ClaimStep == TypeOK /\ ClaimInv /\ [Next]_vars => ClaimInv'
<1> SUFFICES ASSUME TypeOK, ClaimInv, [Next]_vars PROVE ClaimInv'
  OBVIOUS
<1> USE DEF ClaimInv, ClaimedOnce, Unseen, Uninserted, TypeOK, memVars,
            taskVars, diskVars, NoOrder
<1>1. ASSUME NEW o \in Orders, SubmitArrive(o) PROVE ClaimInv'
  BY <1>1 DEF SubmitArrive
<1>2. ASSUME NEW o \in Orders, SubmitCheck(o) PROVE ClaimInv'
  BY <1>2 DEF SubmitCheck
<1>3. ASSUME NEW o \in Orders, SubmitConflict(o) PROVE ClaimInv'
  BY <1>3, ZenonT(60) DEF SubmitConflict
<1>4. ASSUME NEW o \in Orders, SubmitInsert(o) PROVE ClaimInv'
  BY <1>4 DEF SubmitInsert
<1>5. ASSUME NEW o \in Orders, SubmitActivate(o) PROVE ClaimInv'
  BY <1>5 DEF SubmitActivate
<1>6. ASSUME NEW o \in Orders, SubmitCount(o) PROVE ClaimInv'
  BY <1>6 DEF SubmitCount
<1>7. ASSUME NEW o \in Orders, SubmitSave(o) PROVE ClaimInv'
  BY <1>7 DEF SubmitSave, WriteDisk
<1>8. ASSUME NEW o \in Orders, CancelMark(o) PROVE ClaimInv'
  BY <1>8 DEF CancelMark, InFlightStatus
<1>9. ASSUME NEW o \in Orders,
             CancelClear(o) \/ CancelStop(o) \/ CancelDrop(o) \/ ContainerExit(o)
      PROVE  ClaimInv'
  BY <1>9, ClaimStutter, Zenon
  DEF CancelClear, CancelStop, CancelDrop, ContainerExit, claimVars
<1>10. ASSUME NEW o \in Orders, LoopPick(o) PROVE ClaimInv'
  BY <1>10, ZenonT(60) DEF LoopPick
<1>11. ASSUME NEW o \in Orders, LoopClaim(o) PROVE ClaimInv'
  BY <1>11 DEF LoopClaim
<1>12. ASSUME NEW o \in Orders, LoopMiss(o) PROVE ClaimInv'
  BY <1>12 DEF LoopMiss, Orders
<1>13. ASSUME NEW o \in Orders, LoopSpawn(o) PROVE ClaimInv'
  BY <1>13, SMTT(40) DEF LoopSpawn, Orders
<1>14. ASSUME NEW o \in Orders, PlainMove(o) PROVE ClaimInv'
  BY <1>14, PlainMoveFrame, ClaimMove, SMTT(40)
<1>15. ASSUME NEW o \in Orders, TaskSet(o) PROVE ClaimInv'
  <2>1. StatusOf(goal[o]) # "pending"
    BY Zenon DEF StatusOf, Goal
  <2>2. \/ UNCHANGED status
        \/ status' = [status EXCEPT ![o] = StatusOf(goal[o])]
    BY <1>15, Zenon DEF TaskSet
  <2>3. /\ task[o] = "set"
        /\ \A p \in Orders \ {o} : task'[p] = task[p]
        /\ UNCHANGED <<submit, loop, disk, snap>>
    BY <1>15 DEF TaskSet, Goto
  <2>4. submit[o] \notin Uninserted /\ status[o] # "pending"
    BY <2>3, Zenon
  <2> QED
    BY <2>1, <2>2, <2>3, <2>4, SMTT(40)
<1>16. ASSUME NEW o \in Orders, TaskClone(o) PROVE ClaimInv'
  BY <1>16, SMTT(40) DEF TaskClone, Goto
<1>17. ASSUME NEW o \in Orders, TaskWrite(o) PROVE ClaimInv'
  BY <1>17 DEF TaskWrite, Goto, WriteDisk, Blank
<1>18. ASSUME LoopSleep \/ SaveResults PROVE ClaimInv'
  BY <1>18, ClaimStutter, Zenon DEF LoopSleep, SaveResults, vars, claimVars
<1>19. ASSUME SaveClone PROVE ClaimInv'
  BY <1>19, ZenonT(60) DEF SaveClone
<1>20. ASSUME SaveWrite PROVE ClaimInv'
  BY <1>20 DEF SaveWrite, WriteDisk, Blank
<1>21. ASSUME Evict PROVE ClaimInv'
  BY <1>21, SMTT(30) DEF Evict, EvictWorkorders, Terminal, TerminalStatus
<1>22. ASSUME Crash PROVE ClaimInv'
  BY <1>22 DEF Crash, load_workorders, InFlightStatus, Blank, Orders
<1>23. ASSUME UNCHANGED vars PROVE ClaimInv'
  BY <1>23, ClaimStutter, ZenonT(60) DEF vars, claimVars
<1>24. ASSUME NEW o \in Orders, SubmitDrop(o) PROVE ClaimInv'
  BY <1>24 DEF SubmitDrop
<1> QED
  BY <1>1, <1>2, <1>3, <1>4, <1>5, <1>6, <1>7, <1>8, <1>9, <1>10, <1>11,
     <1>12, <1>13, <1>14, <1>15, <1>16, <1>17, <1>18, <1>19, <1>20, <1>21,
     <1>22, <1>23, <1>24, ZenonT(60)
  DEF Next, SubmitNext, SubmitAdvance, CancelNext, CancelAdvance, LoopNext, TaskNext, TaskAdvance,
      SaverNext, PlainMove

(***************************************************************************)
(* The semaphore. A task is spawned only for an order without one, so the  *)
(* set of tasks that hold a permit grows and shrinks with the permits.     *)
(***************************************************************************)
\* There are finitely many tasks, so they can be counted.
LEMMA LiveFinite == IsFiniteSet(Live)
<1>1. IsFiniteSet(Orders)
  BY FS_Interval, BoundAssumption DEF Orders
<1>2. Live \in SUBSET Orders
  BY Zenon DEF Live
<1> QED
  BY <1>1, <1>2, FS_Subset, Zenon

\* Ending a task frees exactly its permit.
LEMMA ReleaseConserves ==
  ASSUME TypeOK, PermitsConserved, NEW o \in Orders, o \in Live,
         NEW step \in {"none", "panicked"}, Release(o, step)
  PROVE  PermitsConserved'
<1>1. Live' = Live \ {o}
  BY Zenon DEF Live, Release, Goto, TypeOK, TaskStep
<1>2. Cardinality(Live') = Cardinality(Live) - 1
  BY <1>1, LiveFinite, FS_RemoveElement, Zenon
<1>3. Cardinality(Live) \in Nat
  BY LiveFinite, FS_CardinalityType, Zenon
<1> QED
  BY <1>2, <1>3, WorkerAssumption DEF PermitsConserved, Release, TypeOK

\* Any other step of a task keeps its permit.
LEMMA HoldConserves ==
  ASSUME TypeOK, PermitsConserved, UNCHANGED permits,
         \A p \in Orders : (p \in Live) = (p \in Live')
  PROVE  PermitsConserved'
<1>1. Live' = Live
  BY Zenon DEF Live
<1> QED
  BY <1>1, Zenon DEF PermitsConserved

\* Spawning takes one permit for a new task and each way out of
\* process_workorder gives one back; no other action touches either.
LEMMA PermitStep ==
  TypeOK /\ ClaimInv /\ PermitsConserved /\ [Next]_vars => PermitsConserved'
<1> SUFFICES ASSUME TypeOK, ClaimInv, PermitsConserved, [Next]_vars
             PROVE  PermitsConserved'
  OBVIOUS
<1>1. ASSUME NEW o \in Orders, LoopSpawn(o) PROVE PermitsConserved'
  <2>1. o \notin Live
    BY <1>1, Zenon DEF ClaimInv, LoopSpawn, Live
  <2>2. Live' = Live \cup {o}
    BY <1>1, Zenon DEF Live, LoopSpawn, TypeOK
  <2>3. Cardinality(Live') = Cardinality(Live) + 1
    BY <2>1, <2>2, LiveFinite, FS_AddElement, Zenon
  <2>4. Cardinality(Live) \in Nat
    BY LiveFinite, FS_CardinalityType, Zenon
  <2> QED
    BY <1>1, <2>3, <2>4, WorkerAssumption, SMTT(30) DEF PermitsConserved, LoopSpawn, TypeOK
<1>2. ASSUME NEW o \in Orders, TaskSkip(o) \/ TaskPanic(o) \/ TaskRemove(o)
      PROVE  PermitsConserved'
  <2>1. o \in Live
    BY <1>2, Zenon DEF Live, TaskSkip, TaskPanic, TaskRemove
  <2> QED
    BY <1>2, <2>1, ReleaseConserves, Zenon DEF TaskSkip, TaskPanic, TaskRemove
<1>3. ASSUME NEW o \in Orders,
             \/ TaskBegin(o) \/ TaskImage(o) \/ TaskStage(o) \/ TaskStart(o)
             \/ TaskRecord(o) \/ TaskAttach(o) \/ TaskWait(o)
             \/ TaskTimeout(o) \/ TaskWaitError(o) \/ TaskIngest(o)
             \/ TaskAnnounce(o) \/ TaskStore(o) \/ TaskCleanup(o)
             \/ TaskSet(o) \/ TaskClone(o) \/ TaskWrite(o)
      PROVE  PermitsConserved'
  <2>1. /\ UNCHANGED permits
        /\ task[o] \notin {"none", "panicked"}
        /\ \E step \in TaskStep \ {"none", "panicked"} :
              task' = [task EXCEPT ![o] = step]
    BY <1>3, Zenon DEF TaskBegin, TaskImage, TaskStage, TaskStart, TaskRecord,
                TaskAttach, TaskWait, TaskTimeout, TaskWaitError, TaskIngest,
                TaskAnnounce, TaskStore, TaskCleanup, TaskSet, TaskClone,
                TaskWrite, Goto, Aim, AfterStatus, TaskStep
  <2> QED
    BY <2>1, HoldConserves, SMTT(30) DEF Live, TypeOK
<1>4. ASSUME UNCHANGED <<permits, task>> PROVE PermitsConserved'
  BY <1>4, Zenon DEF PermitsConserved, Live
<1>5. ASSUME Crash PROVE PermitsConserved'
  <2>1. Live' = {}
    BY <1>5, Zenon DEF Crash, Live
  <2> QED
    BY <1>5, <2>1, FS_EmptySet, WorkerAssumption DEF Crash, PermitsConserved
<1>6. \/ \E o \in Orders : LoopSpawn(o)
      \/ \E o \in Orders : TaskNext(o)
      \/ Crash
      \/ UNCHANGED <<permits, task>>
  BY ZenonT(60) DEF Next, SubmitNext, SubmitAdvance, CancelNext, CancelAdvance, LoopNext, SaverNext, vars, taskVars,
         SubmitArrive, SubmitCheck, SubmitConflict, SubmitInsert,
         SubmitActivate, SubmitCount, SubmitSave, CancelMark, CancelClear,
         CancelStop, SubmitDrop, CancelDrop, ContainerExit, LoopPick,
         LoopClaim, LoopMiss, LoopSleep,
         SaveResults, SaveClone, SaveWrite, Evict, EvictWorkorders
<1> QED
  BY <1>1, <1>2, <1>3, <1>4, <1>5, <1>6, Zenon DEF TaskNext, TaskAdvance

(***************************************************************************)
(* Outcomes. A task writes completed or failed once, and after that write  *)
(* it never comes back to set_workorder_status.                            *)
(***************************************************************************)
Concluding == {"announce", "store", "cleanup", "remove"}

\* The task has yet to write the outcome of its order.
Undecided(o) ==
    \/ task[o] \in {"spawned", "image", "set", "stage", "start", "record",
                    "attach", "run", "drain_ok", "drain_bad"}
    \/ task[o] \in {"clone", "write"} /\ goal[o] = "building"

\* The task has written it.
Decided(o) ==
    \/ task[o] \in Concluding
    \/ task[o] \in {"clone", "write"} /\ goal[o] # "building"

PhaseInv ==
    \A o \in Orders :
        /\ task[o] \in Concluding => goal[o] # "building"
        /\ Undecided(o) => status[o] \notin {"completed", "failed"}
        /\ Decided(o) => status[o] \notin InFlightStatus
        /\ loop.at = "claimed" /\ loop.order = o
              => status[o] \notin {"completed", "failed"}

phaseVars == <<status, task, goal, loop>>

\* No task runs when the server first starts.
LEMMA PhaseInit == Init => PhaseInv
  BY DEF Init, PhaseInv, Undecided, Decided, Concluding

\* Every step of process_workorder respects the phases, and cancellation,
\* eviction and the queue loop write no outcome behind the task's back.
LEMMA PhaseStep == TypeOK /\ ClaimInv /\ PhaseInv /\ [Next]_vars => PhaseInv'
<1> SUFFICES ASSUME TypeOK, ClaimInv, PhaseInv, [Next]_vars PROVE PhaseInv'
  BY ZenonT(60)
<1> USE DEF PhaseInv, Undecided, Decided, Concluding, TypeOK, InFlightStatus
<1>1. ASSUME NEW o \in Orders, SubmitInsert(o) PROVE PhaseInv'
  BY <1>1 DEF SubmitInsert, ClaimInv, Uninserted, Unseen, taskVars
<1>2. ASSUME NEW o \in Orders, CancelMark(o) PROVE PhaseInv'
  BY <1>2, ZenonT(60) DEF CancelMark, taskVars
<1>3. ASSUME NEW o \in Orders, LoopPick(o) \/ LoopMiss(o) PROVE PhaseInv'
  BY <1>3 DEF LoopPick, LoopMiss
<1>4. ASSUME NEW o \in Orders, LoopClaim(o) PROVE PhaseInv'
  BY <1>4, ZenonT(60) DEF LoopClaim, ClaimInv, ClaimedOnce
<1>5. ASSUME NEW o \in Orders, LoopSpawn(o) PROVE PhaseInv'
  BY <1>5, ZenonT(60) DEF LoopSpawn, NoOrder, Orders
<1>6. ASSUME NEW o \in Orders, PlainMove(o) PROVE PhaseInv'
  <2>1. /\ UNCHANGED <<status, loop>>
        /\ \A p \in Orders \ {o} : task'[p] = task[p] /\ goal'[p] = goal[p]
    BY <1>6, PlainMoveFrame, Zenon
  <2>2. /\ task'[o] \in Concluding => goal'[o] # "building"
        /\ Undecided(o)' => Undecided(o)
        /\ Decided(o)' => Decided(o)
    <3>1. CASE TaskSkip(o)
      BY <3>1, Zenon DEF TaskSkip, Release, Goto
    <3>2. CASE TaskBegin(o)
      BY <3>2, Zenon DEF TaskBegin, Goto
    <3>3. CASE TaskImage(o)
      BY <3>3, Zenon DEF TaskImage, Aim, Goto
    <3>4. CASE TaskStage(o)
      BY <3>4, Zenon DEF TaskStage, Aim, Goto
    <3>5. CASE TaskStart(o)
      BY <3>5, ZenonT(60) DEF TaskStart, Aim, Goto
    <3>6. CASE TaskRecord(o)
      BY <3>6, Zenon DEF TaskRecord, Goto
    <3>7. CASE TaskAttach(o)
      BY <3>7, Zenon DEF TaskAttach, Goto
    <3>8. CASE TaskPanic(o)
      BY <3>8, Zenon DEF TaskPanic, Release, Goto
    <3>9. CASE TaskWait(o)
      BY <3>9, Zenon DEF TaskWait, Goto
    <3>10. CASE TaskTimeout(o)
      BY <3>10, Zenon DEF TaskTimeout, Goto
    <3>11. CASE TaskWaitError(o)
      BY <3>11, Zenon DEF TaskWaitError, Goto
    <3>12. CASE TaskIngest(o)
      BY <3>12, Zenon DEF TaskIngest, Aim, Goto
    <3>13. CASE TaskAnnounce(o)
      BY <3>13, ZenonT(60) DEF TaskAnnounce, Goto
    <3>14. CASE TaskStore(o)
      BY <3>14, ZenonT(60) DEF TaskStore, Goto
    <3>15. CASE TaskCleanup(o)
      BY <3>15, Zenon DEF TaskCleanup, Goto
    <3>16. CASE TaskRemove(o)
      BY <3>16, Zenon DEF TaskRemove, Release, Goto
    <3> QED
      BY <1>6, <3>1, <3>2, <3>3, <3>4, <3>5, <3>6, <3>7, <3>8, <3>9, <3>10,
         <3>11, <3>12, <3>13, <3>14, <3>15, <3>16, ZenonT(60) DEF PlainMove
  <2> QED
    BY <2>1, <2>2, ZenonT(60)
<1>7. ASSUME NEW o \in Orders, TaskSet(o) PROVE PhaseInv'
  <2>1. CASE status[o] \in Gone
    BY <1>7, <2>1, ZenonT(60) DEF TaskSet, Goto, AfterStatus, Gone, Goal
  <2>2. CASE status[o] \notin Gone
    BY <1>7, <2>2 DEF TaskSet, Goto, StatusOf, ClaimInv, Goal
  <2> QED
    BY <2>1, <2>2, Zenon
<1>8. ASSUME NEW o \in Orders, TaskClone(o) PROVE PhaseInv'
  BY <1>8, Zenon DEF TaskClone, Goto
<1>9. ASSUME NEW o \in Orders, TaskWrite(o) PROVE PhaseInv'
  BY <1>9, ZenonT(60) DEF TaskWrite, Goto, AfterStatus, Goal
<1>10. ASSUME Evict PROVE PhaseInv'
  BY <1>10 DEF Evict, EvictWorkorders, taskVars
<1>11. ASSUME Crash PROVE PhaseInv'
  BY <1>11, Zenon DEF Crash
<1>12. ASSUME UNCHANGED phaseVars PROVE PhaseInv'
  BY <1>12, Zenon DEF phaseVars
<1>13. \/ \E o \in Orders : SubmitInsert(o) \/ CancelMark(o) \/ LoopNext(o) \/ TaskNext(o)
       \/ Evict \/ Crash
       \/ UNCHANGED phaseVars
  BY ZenonT(60) DEF Next, SubmitNext, SubmitAdvance, CancelNext, CancelAdvance, SaverNext, vars, taskVars, phaseVars,
         SubmitArrive, SubmitCheck, SubmitConflict, SubmitActivate,
         SubmitCount, SubmitSave, SubmitDrop, CancelClear, CancelStop,
         CancelDrop, ContainerExit, LoopSleep, SaveResults, SaveClone, SaveWrite
<1> QED
  BY <1>1, <1>2, <1>3, <1>4, <1>5, <1>6, <1>7, <1>8, <1>9, <1>10, <1>11,
     <1>12, <1>13, Zenon DEF LoopNext, TaskNext, TaskAdvance, PlainMove

(***************************************************************************)
(* The active_workorder slot. While a client has neither cancelled nor     *)
(* hung up nor seen a restart, each of its orders that is queued, claimed  *)
(* or not yet cleaned up holds the slot, or is about to: it is inserted    *)
(* and its handler still owns the submission lock.                         *)
(***************************************************************************)
\* The order is in flight, claimed, or its task has cleanup still to come.
Busy(o) ==
    \/ status[o] \in InFlightStatus
    \/ loop.at = "claimed" /\ loop.order = o
    \/ task[o] \notin {"none", "panicked", "remove"}

Holds(o) == submit[o] = "inserted" \/ active[ClientOf[o]] = o

SlotInv ==
    /\ \A o, p \in Orders :
          submit[o] \in {"locked", "inserted"} /\ submit[p] \in {"locked", "inserted"}
             => o = p
    /\ \A o \in Orders : submit[o] = "inserted" => active[ClientOf[o]] = NoOrder
    /\ \A o \in Orders : cancel[o] # "none" => o \in cancelled
    /\ \A o \in Orders : Quiet(ClientOf[o]) /\ Busy(o) => Holds(o)

\* Two orders of a client cannot both hold its slot.
LEMMA OneHolder ==
  ASSUME TypeOK, SlotInv, NEW o \in Orders, NEW p \in Orders,
         ClientOf[o] = ClientOf[p], Holds(o), Holds(p)
  PROVE  o = p
<1>1. o # NoOrder /\ p # NoOrder
  BY DEF NoOrder, Orders
<1> QED
  BY <1>1, Zenon DEF SlotInv, Holds

\* Every slot is free when the server first starts.
LEMMA SlotInit == Init => SlotInv
  BY ClientAssumption DEF Init, SlotInv, Busy, Blank, InFlightStatus

\* Steps that leave the slots, the locks and the requests alone, and make no
\* order busy that was not.
LEMMA SlotKept ==
  ASSUME TypeOK, SlotInv,
         UNCHANGED <<submit, active, cancel, cancelled, dropped, crashes>>,
         \A o \in Orders : Busy(o)' => Busy(o)
  PROVE  SlotInv'
  BY Zenon DEF SlotInv, Holds, Quiet

\* Submission takes the slot under the submission lock and only the cleanup
\* of the order that holds it frees it, as far as quiet clients go.
LEMMA SlotStep ==
  TypeOK /\ ClaimInv /\ PhaseInv /\ SlotInv /\ [Next]_vars => SlotInv'
<1> SUFFICES ASSUME TypeOK, ClaimInv, PhaseInv, SlotInv, [Next]_vars
             PROVE  SlotInv'
  OBVIOUS
<1> USE ClientAssumption DEF memVars, taskVars, historyVars
<1>1. ASSUME NEW o \in Orders, SubmitArrive(o) \/ SubmitConflict(o)
                               \/ SubmitCount(o) \/ SubmitSave(o)
      PROVE  SlotInv'
  <2>1. /\ submit[o] # "inserted"
        /\ submit'[o] \notin {"locked", "inserted"}
        /\ \A p \in Orders \ {o} : submit'[p] = submit[p]
        /\ UNCHANGED <<active, status, task, loop, cancel, cancelled, dropped, crashes>>
    BY <1>1, Zenon DEF SubmitArrive, SubmitConflict, SubmitCount, SubmitSave, TypeOK
  <2> QED
    BY <2>1, Zenon DEF SlotInv, Holds, Busy, Quiet
<1>2. ASSUME NEW o \in Orders, SubmitCheck(o) PROVE SlotInv'
  BY <1>2, ZenonT(60) DEF SubmitCheck, SubmissionLockFree, SlotInv, Holds, Busy, Quiet, TypeOK
<1>3. ASSUME NEW o \in Orders, SubmitInsert(o) PROVE SlotInv'
  BY <1>3, Zenon DEF SubmitInsert, SlotInv, Holds, Busy, Quiet, TypeOK
<1>4. ASSUME NEW o \in Orders, SubmitActivate(o) PROVE SlotInv'
  <2>1. \A p \in Orders : Quiet(ClientOf[p]) /\ Busy(p) /\ ClientOf[p] = ClientOf[o]
                            => p = o
    BY <1>4, OneHolder, Zenon DEF SubmitActivate, SlotInv, Holds
  <2>2. /\ submit' = [submit EXCEPT ![o] = "active"]
        /\ active' = [active EXCEPT ![ClientOf[o]] = o]
        /\ UNCHANGED <<status, task, loop, cancel, cancelled, dropped, crashes>>
    BY <1>4, Zenon DEF SubmitActivate
  <2>3. submit[o] = "inserted"
    BY <1>4, Zenon DEF SubmitActivate
  <2> QED
    BY <2>1, <2>2, <2>3, ZenonT(60) DEF SlotInv, Holds, Busy, Quiet, TypeOK
<1>5. ASSUME NEW o \in Orders, CancelMark(o) PROVE SlotInv'
  BY <1>5, ZenonT(60) DEF CancelMark, SlotInv, Holds, Busy, Quiet, TypeOK, InFlightStatus
<1>6. ASSUME NEW o \in Orders, CancelClear(o) PROVE SlotInv'
  <2>1. ~Quiet(ClientOf[o])
    BY <1>6, Zenon DEF CancelClear, SlotInv, Quiet, InFlightStatus
  <2>2. /\ active' = [active EXCEPT ![ClientOf[o]] = NoOrder]
        /\ \A p \in Orders : cancel'[p] # "none" => cancel[p] # "none"
        /\ UNCHANGED <<submit, status, task, loop, cancelled, dropped, crashes>>
    BY <1>6, Zenon DEF CancelClear, TypeOK, InFlightStatus
  <2> QED
    BY <2>1, <2>2, Zenon DEF SlotInv, Holds, Busy, Quiet, TypeOK
<1>7. ASSUME NEW o \in Orders, CancelStop(o) PROVE SlotInv'
  <2>1. /\ \A p \in Orders : cancel'[p] \in {cancel[p], "none"}
        /\ UNCHANGED <<submit, active, status, task, loop, cancelled, dropped, crashes>>
    BY <1>7, Zenon DEF CancelStop, TypeOK
  <2> QED
    BY <2>1, Zenon DEF SlotInv, Holds, Busy, Quiet
<1>8. ASSUME NEW o \in Orders, LoopNext(o) PROVE SlotInv'
  <2>1. UNCHANGED <<submit, active, cancel, cancelled, dropped, crashes>>
    BY <1>8, Zenon DEF LoopNext, LoopPick, LoopClaim, LoopMiss, LoopSpawn
  <2>2. CASE LoopPick(o) \/ LoopMiss(o)
    <3>1. UNCHANGED <<status, task>> /\ loop'.at # "claimed"
      <4>1. CASE LoopPick(o)
        BY <4>1, Zenon DEF LoopPick
      <4>2. CASE LoopMiss(o)
        BY <4>2, Zenon DEF LoopMiss
      <4> QED
        BY <2>2, <4>1, <4>2, Zenon
    <3>2. \A p \in Orders : Busy(p)' => Busy(p)
      BY <3>1, Zenon DEF Busy
    <3> QED
      BY <2>1, <3>2, SlotKept, Zenon
  <2>3. CASE LoopClaim(o)
    BY <2>1, <2>3, SlotKept, ZenonT(60) DEF LoopClaim, Busy, TypeOK, InFlightStatus
  <2>4. CASE LoopSpawn(o)
    BY <2>1, <2>4, SlotKept, ZenonT(60) DEF LoopSpawn, Busy, TypeOK, NoOrder, Orders
  <2> QED
    BY <1>8, <2>2, <2>3, <2>4, Zenon DEF LoopNext
<1>9. ASSUME NEW o \in Orders, TaskCleanup(o) PROVE SlotInv'
  <2>1. \A p \in Orders : Quiet(ClientOf[p]) /\ Busy(p) /\ ClientOf[p] = ClientOf[o]
                            => p = o
    BY <1>9, OneHolder, Zenon DEF TaskCleanup, SlotInv, Busy
  <2>2. ~Busy(o)'
    BY <1>9, Zenon DEF TaskCleanup, Goto, Busy, TypeOK, PhaseInv, Decided, Concluding,
                ClaimInv
  <2>3. /\ active' = [active EXCEPT ![ClientOf[o]] = NoOrder]
        /\ \A p \in Orders : Busy(p)' => Busy(p)
        /\ UNCHANGED <<submit, cancel, cancelled, dropped, crashes>>
    BY <1>9, Zenon DEF TaskCleanup, Goto, Busy, TypeOK
  <2> QED
    BY <2>1, <2>2, <2>3, ZenonT(60) DEF SlotInv, Holds, Quiet, TypeOK
<1>10. ASSUME NEW o \in Orders, TaskNext(o), ~TaskCleanup(o) PROVE SlotInv'
  <2>1. UNCHANGED <<submit, active, cancel, cancelled, dropped, crashes, loop>>
    BY <1>10, Zenon DEF TaskNext, TaskAdvance, TaskSkip, TaskBegin, TaskImage,
       TaskSet, TaskClone, TaskWrite, TaskStage, TaskStart, TaskRecord,
       TaskAttach, TaskPanic, TaskWait, TaskTimeout, TaskWaitError,
       TaskIngest, TaskAnnounce, TaskStore, TaskRemove
  <2>2. /\ \A p \in Orders \ {o} : task'[p] = task[p] /\ status'[p] = status[p]
        /\ Busy(o)' => Busy(o)
    <3>1. CASE TaskRemove(o)
      BY <3>1, Zenon DEF TaskRemove, Release, Goto, Busy, TypeOK
    <3>2. CASE TaskSet(o)
      BY <3>2, Zenon DEF TaskSet, Goto, Busy, TypeOK
    <3>3. CASE TaskClone(o) \/ TaskWrite(o)
      BY <3>3, ZenonT(60) DEF TaskClone, TaskWrite, Goto, Busy, TypeOK
    <3>4. CASE PlainMove(o) /\ ~TaskRemove(o)
      <4>1. task[o] \notin {"none", "panicked", "remove"}
        BY <3>4, Zenon DEF PlainMove, TaskSkip, TaskBegin, TaskImage, TaskStage,
           TaskStart, TaskRecord, TaskAttach, TaskPanic, TaskWait,
           TaskTimeout, TaskWaitError, TaskIngest, TaskAnnounce, TaskStore,
           TaskCleanup
      <4> QED
        BY <3>4, <4>1, PlainMoveFrame, Zenon DEF Busy
    <3> QED
      BY <1>10, <3>1, <3>2, <3>3, <3>4, Zenon DEF TaskNext, TaskAdvance, PlainMove
  <2> QED
    BY <2>1, <2>2, SlotKept, ZenonT(60) DEF Busy
<1>11. ASSUME Evict PROVE SlotInv'
  <2>1. /\ UNCHANGED <<submit, active, cancel, cancelled, dropped, crashes, task, loop>>
        /\ \A p \in Orders : status'[p] \in {status[p], "evicted"}
    BY <1>11, Zenon DEF Evict, EvictWorkorders
  <2> QED
    BY <2>1, SlotKept, Zenon DEF Busy, InFlightStatus
<1>12. ASSUME Crash PROVE SlotInv'
  <2>1. crashes' # 0
    BY <1>12, SMTT(30) DEF Crash, TypeOK
  <2> QED
    BY <1>12, <2>1, ZenonT(60) DEF Crash, SlotInv, Quiet, TypeOK
<1>13. ASSUME UNCHANGED <<submit, active, cancel, cancelled, dropped, crashes, status, task, loop>>
       PROVE  SlotInv'
  BY <1>13, SlotKept, Zenon DEF Busy
<1>14. \/ \E o \in Orders : SubmitNext(o) \/ CancelNext(o) \/ LoopNext(o) \/ TaskNext(o)
       \/ Evict \/ Crash
       \/ UNCHANGED <<submit, active, cancel, cancelled, dropped, crashes, status, task, loop>>
  BY Zenon DEF Next, SaverNext, vars, ContainerExit, LoopSleep, SaveResults,
         SaveClone, SaveWrite
<1>15. ASSUME NEW o \in Orders, SubmitDrop(o) \/ CancelDrop(o) PROVE SlotInv'
  <2>1. /\ \A p \in Orders : submit'[p] \in {submit[p], "lost"}
        /\ \A p \in Orders \ {o} : submit'[p] = submit[p]
        /\ \A p \in Orders : cancel'[p] \in {cancel[p], "none"}
        /\ dropped' = dropped \cup {o}
        /\ UNCHANGED <<active, status, task, loop, cancelled, crashes>>
    BY <1>15, Zenon DEF SubmitDrop, CancelDrop, TypeOK
  <2>2. \A p \in Orders : Quiet(ClientOf[p])' => Quiet(ClientOf[p]) /\ p # o
    BY <2>1, Zenon DEF Quiet
  <2> QED
    BY <2>1, <2>2, Zenon DEF SlotInv, Holds, Busy
<1> QED
  BY <1>1, <1>2, <1>3, <1>4, <1>5, <1>6, <1>7, <1>8, <1>9, <1>10, <1>11,
     <1>12, <1>13, <1>14, <1>15, Zenon DEF SubmitNext, SubmitAdvance, CancelNext, CancelAdvance

(***************************************************************************)
(* The inductive invariant and what follows from it.                       *)
(***************************************************************************)
IInv == TypeOK /\ ClaimInv /\ PhaseInv /\ SlotInv /\ PermitsConserved

\* The inductive invariant holds initially.
LEMMA InvInit == Init => IInv
<1> SUFFICES ASSUME Init PROVE IInv
  OBVIOUS
<1>1. Live = {}
  BY Zenon DEF Init, Live
<1>2. PermitsConserved
  BY <1>1, FS_EmptySet, WorkerAssumption DEF Init, PermitsConserved
<1> QED
  BY <1>2, TypeInit, ClaimInit, PhaseInit, SlotInit, Zenon DEF IInv

\* Every step preserves the inductive invariant.
LEMMA InvStep == IInv /\ [Next]_vars => IInv'
  BY TypeStep, ClaimStep, PhaseStep, SlotStep, PermitStep, ZenonT(60) DEF IInv

\* IInv holds in every reachable state.
THEOREM Invariance == Spec => []IInv
  BY InvInit, InvStep, PTL DEF Spec

\* An order is never handed to a second task while one works on it or the
\* queue loop already holds it: the claim in process_queue is exclusive.
THEOREM ClaimedOnceHolds == Spec => []ClaimedOnce
<1>1. IInv => ClaimedOnce
  BY Zenon DEF IInv, ClaimInv
<1> QED
  BY <1>1, Invariance, PTL

\* On every way out of process_workorder, the early return and the panic
\* included, exactly the permit of that task goes back to the semaphore.
THEOREM PermitsConservedHolds == Spec => []PermitsConserved
<1>1. IInv => PermitsConserved
  BY Zenon DEF IInv
<1> QED
  BY <1>1, Invariance, PTL

\* A client that has cancelled nothing and hung up on no request has at most one order in flight until
\* the server restarts, whatever the interleaving of submissions, builds,
\* cleanups and evictions.
THEOREM QuietClientOneActiveHolds == Spec => []QuietClientOneActive
<1>1. IInv => QuietClientOneActive
  <2> SUFFICES ASSUME IInv, NEW c \in Clients, Quiet(c),
                      NEW o \in Open(c), NEW p \in Open(c)
               PROVE  o = p
    BY Zenon DEF QuietClientOneActive
  <2>1. /\ o \in Orders /\ p \in Orders
        /\ ClientOf[o] = c /\ ClientOf[p] = c
        /\ Busy(o) /\ Busy(p)
    BY Zenon DEF Open, Busy
  <2>2. Holds(o) /\ Holds(p)
    BY <2>1, Zenon DEF IInv, SlotInv
  <2> QED
    BY <2>1, <2>2, OneHolder, Zenon DEF IInv
<1> QED
  BY <1>1, Invariance, PTL

\* A step of one server lifetime keeps an outcome, or evicts the order.
LEMMA OutcomeStep ==
  ASSUME IInv, Next, NEW o \in Orders, crashes' = crashes,
         status[o] \in {"completed", "failed", "evicted"}
  PROVE  status'[o] \in {status[o], "evicted"}
<1>1. ASSUME NEW p \in Orders, SubmitInsert(p) PROVE status'[o] = status[o]
  BY <1>1, ZenonT(60) DEF SubmitInsert, IInv, TypeOK, ClaimInv, Uninserted, Unseen
<1>2. ASSUME NEW p \in Orders, CancelMark(p) PROVE status'[o] = status[o]
  BY <1>2, Zenon DEF CancelMark, IInv, TypeOK, InFlightStatus
<1>3. ASSUME NEW p \in Orders, LoopClaim(p) PROVE status'[o] = status[o]
  BY <1>3, Zenon DEF LoopClaim, IInv, TypeOK
<1>4. ASSUME NEW p \in Orders, TaskSet(p) PROVE status'[o] = status[o]
  BY <1>4, Zenon DEF TaskSet, IInv, TypeOK, PhaseInv, Undecided, Gone
<1>5. ASSUME Evict PROVE status'[o] \in {status[o], "evicted"}
  BY <1>5, ZenonT(60) DEF Evict, EvictWorkorders
<1>6. ~Crash
  BY DEF Crash, IInv, TypeOK
<1>7. \/ \E p \in Orders : SubmitInsert(p) \/ CancelMark(p) \/ LoopClaim(p) \/ TaskSet(p)
      \/ Evict
      \/ UNCHANGED status
  <2>1. ASSUME NEW p \in Orders, PlainMove(p) PROVE UNCHANGED status
    BY <2>1, PlainMoveFrame, Zenon DEF IInv
  <2>2. ASSUME NEW p \in Orders, SubmitNext(p), ~SubmitInsert(p) PROVE UNCHANGED status
    BY <2>2, Zenon DEF SubmitNext, SubmitAdvance, SubmitArrive, SubmitCheck, SubmitConflict,
                SubmitActivate, SubmitCount, SubmitSave, SubmitDrop
  <2>3. ASSUME NEW p \in Orders,
               \/ CancelClear(p) \/ CancelStop(p) \/ CancelDrop(p)
               \/ ContainerExit(p)
               \/ LoopPick(p) \/ LoopMiss(p) \/ LoopSpawn(p)
               \/ TaskClone(p) \/ TaskWrite(p)
        PROVE  UNCHANGED status
    BY <2>3, Zenon DEF CancelClear, CancelStop, CancelDrop, ContainerExit, LoopPick,
                LoopMiss, LoopSpawn, TaskClone, TaskWrite
  <2>4. ASSUME LoopSleep \/ SaverNext PROVE UNCHANGED status
    BY <2>4, Zenon DEF LoopSleep, vars, SaverNext, SaveResults, SaveClone, SaveWrite
  <2> QED
    BY <1>6, <2>1, <2>2, <2>3, <2>4, ZenonT(60)
    DEF Next, CancelNext, CancelAdvance, LoopNext, TaskNext, TaskAdvance, PlainMove
<1> QED
  BY <1>1, <1>2, <1>3, <1>4, <1>5, <1>7, ZenonT(60)

\* Until the server restarts a completed or failed order keeps its outcome
\* or is evicted, and an evicted order stays out of the map, although
\* set_workorder_status overwrites whatever status it finds.
THEOREM OutcomeIsFinalHolds == Spec => OutcomeIsFinal
<1>1. IInv /\ [Next]_vars =>
        [\A o \in Orders : crashes' = crashes /\ status[o] \in {"completed", "failed", "evicted"}
            => status'[o] \in {status[o], "evicted"}]_vars
  BY OutcomeStep, Zenon
<1> QED
  BY <1>1, Invariance, PTL DEF Spec, OutcomeIsFinal

(***************************************************************************)
(* The state file. Whatever was cloned or written as completed is still    *)
(* completed in memory, or was evicted there.                              *)
(***************************************************************************)
DiskInv ==
    \A o \in Orders :
        (disk[o] = "completed" \/ \E w \in Orders \cup {NoOrder} : snap[w][o] = "completed")
           => status[o] \in {"completed", "evicted"}

\* What a step that is not a crash writes to the file and to the clones.
LEMMA DiskFrame ==
  ASSUME TypeOK, Next, ~Crash
  PROVE  /\ crashes' = crashes
         /\ \/ disk' = disk
            \/ disk' = status /\ status' = status
            \/ \E w \in Orders \cup {NoOrder} : disk' = snap[w]
         /\ \A w \in Orders \cup {NoOrder} :
               \/ snap'[w] = snap[w]
               \/ snap'[w] = status /\ status' = status
               \/ snap'[w] = Blank
<1> USE DEF TypeOK, diskVars, historyVars, WriteDisk
<1>1. ASSUME NEW o \in Orders, PlainMove(o)
      PROVE  UNCHANGED <<disk, snap, crashes>>
  <2>1. UNCHANGED crashes
    BY <1>1, Zenon DEF PlainMove, TaskSkip, TaskBegin, TaskImage, TaskStage,
       TaskStart, TaskRecord, TaskAttach, TaskPanic, TaskWait, TaskTimeout,
       TaskWaitError, TaskIngest, TaskAnnounce, TaskStore, TaskCleanup,
       TaskRemove
  <2> QED
    BY <1>1, <2>1, PlainMoveFrame, ZenonT(60)
<1>2. ASSUME NEW o \in Orders,
             \/ SubmitArrive(o) \/ SubmitCheck(o) \/ SubmitConflict(o)
             \/ SubmitInsert(o) \/ SubmitActivate(o) \/ SubmitCount(o)
             \/ SubmitDrop(o)
             \/ CancelNext(o) \/ LoopNext(o) \/ ContainerExit(o) \/ TaskSet(o)
      PROVE  UNCHANGED <<disk, snap, crashes>>
  BY <1>2, Zenon DEF SubmitArrive, SubmitCheck, SubmitConflict, SubmitInsert,
     SubmitActivate, SubmitCount, SubmitDrop, CancelNext, CancelAdvance, CancelMark,
     CancelClear, CancelStop, CancelDrop, LoopNext, LoopPick, LoopClaim, LoopMiss, LoopSpawn,
     ContainerExit, TaskSet
<1>3. ASSUME LoopSleep \/ SaveResults \/ Evict
      PROVE  UNCHANGED <<disk, snap, crashes>>
  BY <1>3, Zenon DEF LoopSleep, vars, SaveResults, Evict, EvictWorkorders
<1>4. ASSUME NEW o \in Orders, SubmitSave(o)
      PROVE  UNCHANGED <<snap, crashes, status>> /\ disk' \in {disk, status}
  BY <1>4, Zenon DEF SubmitSave
<1>5. ASSUME NEW w \in Orders \cup {NoOrder},
             UNCHANGED <<disk, crashes, status>>, snap' = [snap EXCEPT ![w] = status]
      PROVE  \A v \in Orders \cup {NoOrder} :
                snap'[v] = snap[v] \/ (snap'[v] = status /\ status' = status)
  BY <1>5, Zenon
<1>6. ASSUME NEW w \in Orders \cup {NoOrder}, snap' = [snap EXCEPT ![w] = Blank]
      PROVE  \A v \in Orders \cup {NoOrder} : snap'[v] = snap[v] \/ snap'[v] = Blank
  BY <1>6, Zenon
<1>7. ASSUME NEW o \in Orders, TaskClone(o)
      PROVE  UNCHANGED <<disk, crashes, status>> /\ snap' = [snap EXCEPT ![o] = status]
  BY <1>7, Zenon DEF TaskClone
<1>8. ASSUME NEW o \in Orders, TaskWrite(o)
      PROVE  /\ UNCHANGED crashes /\ disk' \in {disk, snap[o]}
             /\ snap' = [snap EXCEPT ![o] = Blank]
  BY <1>8, Zenon DEF TaskWrite
<1>9. ASSUME SaveClone
      PROVE  UNCHANGED <<disk, crashes, status>> /\ snap' = [snap EXCEPT ![NoOrder] = status]
  BY <1>9, Zenon DEF SaveClone
<1>10. ASSUME SaveWrite
       PROVE  /\ UNCHANGED crashes /\ disk' \in {disk, snap[NoOrder]}
              /\ snap' = [snap EXCEPT ![NoOrder] = Blank]
  BY <1>10, ZenonT(60) DEF SaveWrite
<1>11. NoOrder \in Orders \cup {NoOrder} /\ Orders \subseteq Orders \cup {NoOrder}
  OBVIOUS
<1> HIDE DEF TypeOK, WriteDisk
<1>12. CASE \E o \in Orders : TaskClone(o) \/ TaskWrite(o)
  BY <1>5, <1>6, <1>7, <1>8, <1>12, Zenon
<1>13. CASE SaveClone \/ SaveWrite
  BY <1>5, <1>6, <1>9, <1>10, <1>11, <1>13, ZenonT(60)
<1>14. CASE \E o \in Orders : SubmitSave(o)
  BY <1>4, <1>14, Zenon
<1>15. CASE UNCHANGED <<disk, snap, crashes>>
  BY <1>15, Zenon
<1> QED
  BY <1>1, <1>2, <1>3, <1>12, <1>13, <1>14, <1>15, ZenonT(60)
  DEF Next, SubmitNext, SubmitAdvance, TaskNext, TaskAdvance, SaverNext, PlainMove

\* A clone is taken from the map and written later; by OutcomeStep what it
\* says is completed has stayed so, and a restart loads it unchanged.
LEMMA DiskStep == IInv /\ DiskInv /\ [Next]_vars => DiskInv'
<1> SUFFICES ASSUME IInv, DiskInv, [Next]_vars PROVE DiskInv'
  OBVIOUS
<1>1. CASE UNCHANGED vars
  BY <1>1, Zenon DEF DiskInv, vars, diskVars
<1>2. CASE Crash
  BY <1>2, Zenon DEF Crash, DiskInv, load_workorders, InFlightStatus, Blank, NoOrder
<1>3. CASE Next /\ ~Crash
  <2> SUFFICES ASSUME NEW o \in Orders,
                      disk'[o] = "completed"
                        \/ \E w \in Orders \cup {NoOrder} : snap'[w][o] = "completed"
               PROVE  status'[o] \in {"completed", "evicted"}
    BY Zenon DEF DiskInv
  <2>1. TypeOK
    BY Zenon DEF IInv
  <2>2. Blank[o] # "completed"
    BY Zenon DEF Blank
  <2>3. status[o] \in {"completed", "evicted"}
    BY <1>3, <2>1, <2>2, DiskFrame, Zenon DEF DiskInv
  <2> QED
    BY <1>3, <2>1, <2>3, OutcomeStep, DiskFrame, Zenon
<1> QED
  BY <1>1, <1>2, <1>3, Zenon

\* workorders.json never reports a completion the server has not recorded,
\* in whatever order the handlers, the tasks and the periodic saver write
\* their clones, with failing writes and across restarts.
THEOREM NoPhantomCompletionHolds == Spec => []NoPhantomCompletion
<1>1. Init => DiskInv
  BY Zenon DEF Init, DiskInv, Blank
<1>2. DiskInv => NoPhantomCompletion
  BY Zenon DEF DiskInv, NoPhantomCompletion
<1> QED
  BY <1>1, <1>2, DiskStep, Invariance, PTL DEF Spec

-----------------------------------------------------------------------------
(***************************************************************************)
(* What the handlers, the queue loop and the saver leave alone.            *)
(***************************************************************************)
buildVars == <<task, goal, staged, cids, results, building>>

\* Handlers and the queue loop, up to the spawn, touch nothing of a build.
LEMMA HandlerFrame ==
  ASSUME NEW o \in Orders,
         SubmitNext(o) \/ CancelNext(o) \/ LoopPick(o) \/ LoopClaim(o) \/ LoopMiss(o)
  PROVE  UNCHANGED buildVars
<1> USE DEF buildVars, memVars, taskVars, gaugeVars
<1>1. CASE SubmitNext(o)
  BY <1>1, Zenon DEF SubmitNext, SubmitAdvance, SubmitArrive, SubmitCheck, SubmitConflict,
              SubmitInsert, SubmitActivate, SubmitCount, SubmitSave, SubmitDrop
<1>2. CASE CancelNext(o)
  BY <1>2, Zenon DEF CancelNext, CancelAdvance, CancelMark, CancelClear, CancelStop, CancelDrop
<1>3. CASE LoopPick(o) \/ LoopClaim(o) \/ LoopMiss(o)
  BY <1>3, Zenon DEF LoopPick, LoopClaim, LoopMiss
<1> QED
  BY <1>1, <1>2, <1>3, Zenon

\* The sleeping loop and the periodic saver touch nothing outside the files.
LEMMA SaverFrame ==
  ASSUME LoopSleep \/ SaverNext \/ UNCHANGED vars
  PROVE  UNCHANGED <<buildVars, submit, status, loop, container, crashes, cancelled>>
  BY Zenon DEF LoopSleep, SaverNext, SaveResults, SaveClone, SaveWrite, vars, buildVars,
         memVars, taskVars, gaugeVars, historyVars

(***************************************************************************)
(* What is left behind. The container id and the staged references are     *)
(* recorded after the task has begun and cleared before it removes its     *)
(* container; only a task that panics leaves them, and it panics only when *)
(* its order was cancelled and evicted before the attach.                  *)
(***************************************************************************)
LeakInv ==
    \A o \in Orders : task[o] \in {"none", "spawned", "remove"} => o \notin staged /\ o \notin cids

\* A step of a task keeps LeakInv: only cleanup leads to the removal.
LEMMA LeakTask ==
  ASSUME TypeOK, LeakInv, NEW o \in Orders, TaskNext(o)
  PROVE  LeakInv'
<1> USE DEF LeakInv, TypeOK
<1>1. CASE TaskSkip(o)
  BY <1>1, Zenon DEF TaskSkip, Release, Goto, memVars
<1>2. CASE TaskBegin(o) \/ TaskImage(o)
  BY <1>2, Zenon DEF TaskBegin, TaskImage, Aim, Goto, memVars
<1>3. CASE TaskSet(o)
  BY <1>3, ZenonT(60) DEF TaskSet, Goto, AfterStatus, Goal, memVars
<1>4. CASE TaskClone(o)
  BY <1>4, Zenon DEF TaskClone, Goto, memVars
<1>5. CASE TaskWrite(o)
  BY <1>5, Zenon DEF TaskWrite, Goto, AfterStatus, Goal, memVars
<1>6. CASE TaskStage(o)
  BY <1>6, Zenon DEF TaskStage, Aim, Goto
<1>7. CASE TaskStart(o) \/ TaskIngest(o)
  BY <1>7, Zenon DEF TaskStart, TaskIngest, Aim, Goto, memVars
<1>8. CASE TaskRecord(o)
  BY <1>8, Zenon DEF TaskRecord, Goto
<1>9. CASE TaskAttach(o) \/ TaskPanic(o)
  BY <1>9, Zenon DEF TaskAttach, TaskPanic, Release, Goto, memVars
<1>10. CASE TaskWait(o) \/ TaskTimeout(o) \/ TaskWaitError(o)
  BY <1>10, Zenon DEF TaskWait, TaskTimeout, TaskWaitError, Goto
<1>11. CASE TaskAnnounce(o) \/ TaskStore(o)
  BY <1>11, ZenonT(60) DEF TaskAnnounce, TaskStore, Goto, memVars
<1>12. CASE TaskCleanup(o)
  BY <1>12, Zenon DEF TaskCleanup, Goto
<1>13. CASE TaskRemove(o)
  BY <1>13, Zenon DEF TaskRemove, Release, Goto, memVars
<1> QED
  BY <1>1, <1>2, <1>3, <1>4, <1>5, <1>6, <1>7, <1>8, <1>9, <1>10, <1>11, <1>12, <1>13, ZenonT(60)
  DEF TaskNext, TaskAdvance

\* LeakInv is inductive: what is recorded is cleared on every way out, the
\* eviction only clears, and a restart begins with nothing recorded.
LEMMA LeakStep == IInv /\ LeakInv /\ [Next]_vars => LeakInv'
<1> SUFFICES ASSUME IInv, LeakInv, [Next]_vars PROVE LeakInv'
  OBVIOUS
<1>1. TypeOK /\ ClaimInv
  BY Zenon DEF IInv
<1>2. CASE UNCHANGED <<task, staged, cids>>
  BY <1>2, Zenon DEF LeakInv
<1>3. ASSUME NEW o \in Orders, LoopSpawn(o) PROVE LeakInv'
  BY <1>1, <1>3, Zenon DEF LeakInv, LoopSpawn, ClaimInv, TypeOK, memVars
<1>4. CASE Evict
  BY <1>4, Zenon DEF Evict, EvictWorkorders, taskVars, LeakInv
<1>5. CASE Crash
  BY <1>5, Zenon DEF Crash, LeakInv
<1>6. ASSUME NEW o \in Orders, ContainerExit(o) PROVE UNCHANGED <<task, staged, cids>>
  BY <1>6, Zenon DEF ContainerExit, memVars, taskVars
<1> QED
  BY <1>1, <1>2, <1>3, <1>4, <1>5, <1>6, LeakTask, HandlerFrame, SaverFrame, ZenonT(60)
  DEF Next, LoopNext, buildVars

\* The task has yet to look up the raw channel.
BeforeAttach(o) ==
    \/ task[o] \in {"spawned", "image", "stage", "start", "record", "attach"}
    \/ task[o] \in {"set", "clone", "write"} /\ goal[o] = "building"

Underway(o) == BeforeAttach(o) \/ (loop.at = "claimed" /\ loop.order = o)

\* The user cancelled the order and an eviction removed it with its channels.
Removed(o) == o \in cancelled /\ status[o] = "evicted"

PanicInv ==
    \A o \in Orders :
        /\ status[o] = "pending" => o \in raw
        /\ Underway(o) => o \in raw \/ Removed(o)
        /\ Underway(o) /\ status[o] = "cancelled" => o \in cancelled
        /\ task[o] = "panicked" => Removed(o)

\* A step of a task drops its order's raw channel only after the lookup, and comes
\* to no earlier step.
LEMMA PanicTask ==
  ASSUME IInv, PanicInv, NEW o \in Orders, TaskNext(o)
  PROVE  PanicInv'
<1>1. TypeOK /\ ClaimInv
  BY Zenon DEF IInv
<1>2. task[o] # "none" /\ status[o] # "pending" /\ ~(loop.at = "claimed" /\ loop.order = o)
  <2>1. task[o] # "none"
    BY Zenon DEF TaskNext, TaskAdvance, TaskSkip, TaskBegin, TaskImage, TaskSet, TaskClone,
       TaskWrite, TaskStage, TaskStart, TaskRecord, TaskAttach, TaskPanic, TaskWait,
       TaskTimeout, TaskWaitError, TaskIngest, TaskAnnounce, TaskStore, TaskCleanup,
       TaskRemove
  <2> QED
    BY <1>1, <2>1, Zenon DEF ClaimInv, ClaimedOnce
<1>3. UNCHANGED <<loop, cancelled>>
  BY Zenon DEF TaskNext, TaskAdvance, TaskSkip, TaskBegin, TaskImage, TaskSet, TaskClone,
     TaskWrite, TaskStage, TaskStart, TaskRecord, TaskAttach, TaskPanic, TaskWait,
     TaskTimeout, TaskWaitError, TaskIngest, TaskAnnounce, TaskStore, TaskCleanup,
     TaskRemove, historyVars
<1>4. \A p \in Orders \ {o} : /\ task'[p] = task[p] /\ goal'[p] = goal[p]
                               /\ status'[p] = status[p]
  <2>1. CASE PlainMove(o)
    BY <1>1, <2>1, PlainMoveFrame, ZenonT(60)
  <2>2. CASE TaskSet(o) \/ TaskClone(o) \/ TaskWrite(o)
    BY <1>1, <2>2, SMTT(40) DEF TaskSet, TaskClone, TaskWrite, Goto, TypeOK
  <2> QED
    BY <2>1, <2>2, Zenon DEF TaskNext, TaskAdvance, PlainMove
<1>5. raw' = raw \/ raw' = raw \ {o}
  BY Zenon DEF TaskNext, TaskAdvance, TaskSkip, TaskBegin, TaskImage, TaskSet, TaskClone,
     TaskWrite, TaskStage, TaskStart, TaskRecord, TaskAttach, TaskPanic, TaskWait,
     TaskTimeout, TaskWaitError, TaskIngest, TaskAnnounce, TaskStore, TaskCleanup,
     TaskRemove, memVars
<1>6. /\ status'[o] \notin {"pending", "cancelled"} \/ status'[o] = status[o]
      /\ status[o] = "evicted" => status'[o] = "evicted"
  <2>1. CASE PlainMove(o)
    BY <1>1, <2>1, PlainMoveFrame, Zenon
  <2>2. CASE TaskSet(o) \/ TaskClone(o) \/ TaskWrite(o)
    BY <1>1, <2>2, ZenonT(60) DEF TaskSet, TaskClone, TaskWrite, StatusOf, TypeOK, Goal, Gone
  <2> QED
    BY <2>1, <2>2, Zenon DEF TaskNext, TaskAdvance, PlainMove
<1>7. /\ BeforeAttach(o)' => BeforeAttach(o) /\ UNCHANGED raw
      /\ task'[o] = "panicked" => BeforeAttach(o) /\ o \notin raw /\ UNCHANGED status
  <2> USE <1>1 DEF BeforeAttach, TypeOK
  <2>1. CASE TaskSkip(o) \/ TaskBegin(o) \/ TaskImage(o) \/ TaskStage(o)
    BY <2>1, Zenon DEF TaskSkip, TaskBegin, TaskImage, TaskStage, Release, Aim, Goto, memVars
  <2>2. CASE TaskStart(o) \/ TaskIngest(o)
    BY <2>2, Zenon DEF TaskStart, TaskIngest, Aim, Goto, memVars
  <2>3. CASE TaskSet(o) \/ TaskWrite(o)
    <3>1. goal[o] \in Goal /\ (AfterStatus(goal[o]) = "stage" => goal[o] = "building")
          /\ AfterStatus(goal[o]) \in {"stage", "announce", "store"}
      <4>1. goal[o] \in Goal
        OBVIOUS
      <4> QED
        BY <4>1, Zenon DEF AfterStatus, Goal
    <3> QED
      BY <2>3, <3>1, ZenonT(60) DEF TaskSet, TaskWrite, Goto, memVars
  <2>4. CASE TaskClone(o) \/ TaskRecord(o) \/ TaskAttach(o)
    BY <2>4, Zenon DEF TaskClone, TaskRecord, TaskAttach, Goto, memVars
  <2>5. CASE TaskPanic(o)
    BY <2>5, Zenon DEF TaskPanic, Release, Goto, memVars
  <2>6. CASE TaskWait(o) \/ TaskTimeout(o) \/ TaskWaitError(o)
    BY <2>6, ZenonT(60) DEF TaskWait, TaskTimeout, TaskWaitError, Goto
  <2>7. CASE TaskAnnounce(o) \/ TaskStore(o) \/ TaskCleanup(o) \/ TaskRemove(o)
    BY <2>7, ZenonT(60) DEF TaskAnnounce, TaskStore, TaskCleanup, TaskRemove, Release, Goto
  <2> QED
    BY <2>1, <2>2, <2>3, <2>4, <2>5, <2>6, <2>7, ZenonT(60) DEF TaskNext, TaskAdvance
<1>8. ASSUME NEW p \in Orders \ {o}
      PROVE  /\ status'[p] = "pending" => p \in raw'
             /\ Underway(p)' => p \in raw' \/ Removed(p)'
             /\ Underway(p)' /\ status'[p] = "cancelled" => p \in cancelled'
             /\ task'[p] = "panicked" => Removed(p)'
  <2>1. p \in raw => p \in raw'
    BY <1>5, Zenon
  <2> QED
    BY <1>3, <1>4, <2>1, Zenon DEF PanicInv, Underway, BeforeAttach, Removed
<1>9. /\ status'[o] # "pending"
      /\ Underway(o)' => o \in raw' \/ Removed(o)'
      /\ Underway(o)' /\ status'[o] = "cancelled" => o \in cancelled'
      /\ task'[o] = "panicked" => Removed(o)'
  BY <1>2, <1>3, <1>6, <1>7, Zenon DEF PanicInv, Underway, Removed
<1> QED
  BY <1>8, <1>9, Zenon DEF PanicInv

\* PanicInv is inductive: the channels are made with the order, and only the
\* eviction of an order that the user cancelled takes them from a task on its way.
LEMMA PanicStep == IInv /\ PanicInv /\ [Next]_vars => PanicInv'
<1> SUFFICES ASSUME IInv, PanicInv, [Next]_vars PROVE PanicInv'
  OBVIOUS
<1>1. TypeOK /\ ClaimInv /\ PhaseInv
  BY Zenon DEF IInv
<1>2. CASE UNCHANGED <<status, raw, task, goal, loop, cancelled>>
  BY <1>2, Zenon DEF PanicInv, Underway, BeforeAttach, Removed
<1>3. ASSUME NEW o \in Orders, SubmitInsert(o) PROVE PanicInv'
  BY <1>1, <1>3, ZenonT(60) DEF SubmitInsert, ClaimInv, Unseen, Uninserted, TypeOK, taskVars,
     historyVars, PanicInv, Underway, BeforeAttach, Removed
<1>4. ASSUME NEW o \in Orders, CancelMark(o) PROVE PanicInv'
  BY <1>1, <1>4, ZenonT(60) DEF CancelMark, TypeOK, memVars, taskVars, InFlightStatus,
     PanicInv, Underway, BeforeAttach, Removed
<1>5. ASSUME NEW o \in Orders, LoopPick(o) \/ LoopMiss(o) PROVE PanicInv'
  <2>1. UNCHANGED <<status, raw, task, goal, cancelled>>
    BY <1>5, Zenon DEF LoopPick, LoopMiss, memVars, historyVars
  <2>2. loop'.at # "claimed"
    <3>1. CASE LoopPick(o)
      BY <3>1, Zenon DEF LoopPick
    <3>2. CASE LoopMiss(o)
      BY <3>2, Zenon DEF LoopMiss
    <3> QED
      BY <1>5, <3>1, <3>2, Zenon
  <2> QED
    BY <2>1, <2>2, Zenon DEF PanicInv, Underway, BeforeAttach, Removed
<1>6. ASSUME NEW o \in Orders, LoopClaim(o) PROVE PanicInv'
  BY <1>1, <1>6, ZenonT(60) DEF LoopClaim, TypeOK, memVars, historyVars,
     PanicInv, Underway, BeforeAttach, Removed
<1>7. ASSUME NEW o \in Orders, LoopSpawn(o) PROVE PanicInv'
  BY <1>1, <1>7, ZenonT(60) DEF LoopSpawn, TypeOK, memVars, historyVars,
     PanicInv, Underway, BeforeAttach, Removed
<1>8. CASE Evict
  <2>1. PICK gone \in SUBSET Orders :
            /\ \A o \in gone : status[o] \in TerminalStatus
            /\ status' = [o \in Orders |-> IF o \in gone THEN "evicted" ELSE status[o]]
            /\ raw' = raw \ gone
    BY <1>8, ZenonT(60) DEF Evict, EvictWorkorders, Terminal
  <2>2. UNCHANGED <<task, goal, loop, cancelled>>
    BY <1>8, Zenon DEF Evict, EvictWorkorders, taskVars, historyVars
  <2>3. ASSUME NEW o \in Orders, Underway(o) PROVE status[o] \notin {"completed", "failed"}
    BY <1>1, <2>3, Zenon DEF PhaseInv, Undecided, Underway, BeforeAttach
  <2>4. ASSUME NEW o \in Orders, o \in gone
        PROVE  status'[o] = "evicted" /\ (Underway(o) => o \in cancelled)
    BY <2>1, <2>3, <2>4, Zenon DEF PanicInv, TerminalStatus
  <2>5. ASSUME NEW o \in Orders, o \notin gone
        PROVE  status'[o] = status[o] /\ (o \in raw => o \in raw')
    BY <2>1, <2>5, Zenon
  <2>6. ASSUME NEW o \in Orders
        PROVE  (Underway(o)' <=> Underway(o)) /\ (Removed(o) => Removed(o)')
    BY <2>2, <2>4, <2>5, Zenon DEF Underway, BeforeAttach, Removed
  <2> QED
    BY <2>2, <2>4, <2>5, <2>6, Zenon DEF PanicInv, Removed
<1>9. CASE Crash
  <2>1. \A o \in Orders : task'[o] = "none" /\ loop'.at = "look"
    BY <1>9, Zenon DEF Crash
  <2>2. \A o \in Orders : status'[o] = "pending" => o \in raw'
    BY <1>9, Zenon DEF Crash, load_workorders, InFlight, InFlightStatus
  <2> QED
    BY <2>1, <2>2, Zenon DEF PanicInv, Underway, BeforeAttach
<1>10. \/ \E o \in Orders : SubmitInsert(o) \/ CancelMark(o) \/ LoopNext(o) \/ TaskNext(o)
       \/ Evict \/ Crash
       \/ UNCHANGED <<status, raw, task, goal, loop, cancelled>>
  BY ZenonT(60) DEF Next, SubmitNext, SubmitAdvance, CancelNext, CancelAdvance, SaverNext, vars,
     taskVars, memVars, historyVars, SubmitArrive, SubmitCheck, SubmitConflict,
     SubmitActivate, SubmitCount, SubmitSave, SubmitDrop, CancelClear, CancelStop,
     CancelDrop, ContainerExit, LoopSleep, SaveResults, SaveClone, SaveWrite
<1> QED
  BY <1>2, <1>3, <1>4, <1>5, <1>6, <1>7, <1>8, <1>9, <1>10, PanicTask, Zenon DEF LoopNext

\* A container id or a snapshot reference outlives its task only by the panic in
\* process_workorder, after the order was cancelled and evicted before the attach;
\* on every other way out cleanup_workorder_runtime has cleared them.
THEOREM LeakOnlyByPanicHolds == Spec => []LeakOnlyByPanic
<1>1. Init => LeakInv
  BY Zenon DEF Init, LeakInv
<1>2. ASSUME Init PROVE PanicInv
  <2>1. \A o \in Orders : task[o] = "none" /\ loop.at = "look" /\ status[o] = "absent"
    BY <1>2, Zenon DEF Init, Blank
  <2> QED
    BY <2>1, Zenon DEF PanicInv, Underway, BeforeAttach
<1>3. TypeOK /\ LeakInv /\ PanicInv => LeakOnlyByPanic
  BY Zenon DEF TypeOK, LeakInv, PanicInv, LeakOnlyByPanic, Live, Removed
<1>4. IInv => TypeOK
  BY Zenon DEF IInv
<1> QED
  BY <1>1, <1>2, <1>3, <1>4, LeakStep, PanicStep, Invariance, PTL DEF Spec

(***************************************************************************)
(* The result before the Finished event, on the paths that ran a container.*)
(***************************************************************************)
\* A step of a task reaches the late announcement only by storing the result.
LEMMA LateTask ==
  ASSUME IInv, LateFinishedHasResult, NEW o \in Orders, TaskNext(o)
  PROVE  LateFinishedHasResult'
<1>1. TypeOK
  BY Zenon DEF IInv
<1>2. ASSUME PlainMove(o), ~TaskStore(o) PROVE LateFinishedHasResult'
  <2>1. UNCHANGED <<status, results>>
    BY <1>2, Zenon DEF PlainMove, TaskSkip, TaskBegin, TaskImage, TaskStage, TaskStart,
       TaskRecord, TaskAttach, TaskPanic, TaskWait, TaskTimeout, TaskWaitError,
       TaskIngest, TaskAnnounce, TaskCleanup, TaskRemove, memVars
  <2>2. task'[o] # "announce"
    BY <1>1, <1>2, Zenon DEF PlainMove, TaskSkip, TaskBegin, TaskImage, TaskStage, TaskStart,
       TaskRecord, TaskAttach, TaskPanic, TaskWait, TaskTimeout, TaskWaitError,
       TaskIngest, TaskAnnounce, TaskCleanup, TaskRemove, Release, Aim, Goto, TypeOK
  <2>3. \A p \in Orders \ {o} : task'[p] = task[p] /\ goal'[p] = goal[p]
    BY <1>1, <1>2, PlainMoveFrame, Zenon
  <2> QED
    BY <2>1, <2>2, <2>3, Zenon DEF LateFinishedHasResult
<1>3. CASE TaskStore(o)
  BY <1>1, <1>3, Zenon DEF TaskStore, Goto, TypeOK, LateFinishedHasResult
<1>4. CASE TaskClone(o)
  BY <1>1, <1>4, Zenon DEF TaskClone, Goto, TypeOK, LateFinishedHasResult, memVars
<1>5. CASE TaskSet(o) \/ TaskWrite(o)
  <2>1. goal[o] \in Goal
    BY <1>1, Zenon DEF TypeOK
  <2>2. AfterStatus(goal[o]) = "announce" => goal[o] = "early"
    BY <2>1, Zenon DEF AfterStatus, Goal
  <2>3. /\ task'[o] = "announce" => goal'[o] = "early"
        /\ \A p \in Orders \ {o} : task'[p] = task[p] /\ status'[p] = status[p]
        /\ UNCHANGED <<goal, results>>
    BY <1>1, <1>5, <2>2 DEF TaskSet, TaskWrite, Goto, TypeOK, memVars
  <2> QED
    BY <2>3, Zenon DEF LateFinishedHasResult
<1> QED
  BY <1>2, <1>3, <1>4, <1>5, Zenon DEF TaskNext, TaskAdvance, PlainMove

\* Nothing but an eviction removes a result while its task is at work.
LEMMA LateStep == IInv /\ LateFinishedHasResult /\ [Next]_vars => LateFinishedHasResult'
<1> SUFFICES ASSUME IInv, LateFinishedHasResult, [Next]_vars
             PROVE  LateFinishedHasResult'
  OBVIOUS
<1>1. TypeOK /\ ClaimInv
  BY Zenon DEF IInv
<1>2. ASSUME UNCHANGED <<task, goal, results>>,
             \A o \in Orders : status[o] \in Gone /\ task[o] # "none" => status'[o] \in Gone
      PROVE  LateFinishedHasResult'
  BY <1>2, Zenon DEF LateFinishedHasResult
<1>3. ASSUME NEW o \in Orders, SubmitNext(o) PROVE LateFinishedHasResult'
  <2>1. \A p \in Orders : status'[p] = status[p] \/ task[p] = "none"
    BY <1>1, <1>3, ZenonT(60) DEF SubmitNext, SubmitAdvance, SubmitArrive, SubmitCheck,
       SubmitConflict, SubmitInsert, SubmitActivate, SubmitCount, SubmitSave,
       SubmitDrop, TypeOK, ClaimInv, Uninserted, Unseen
  <2> QED
    BY <1>2, <1>3, <2>1, HandlerFrame, Zenon DEF buildVars
<1>4. ASSUME NEW o \in Orders, CancelNext(o) \/ LoopPick(o) \/ LoopClaim(o) \/ LoopMiss(o)
      PROVE  LateFinishedHasResult'
  <2>1. \A p \in Orders : status[p] \in Gone => status'[p] = status[p]
    BY <1>1, <1>4, Zenon DEF CancelNext, CancelMark, CancelAdvance, CancelClear, CancelStop,
       CancelDrop, LoopPick, LoopClaim, LoopMiss, TypeOK, Gone, InFlightStatus
  <2> QED
    BY <1>2, <1>4, <2>1, HandlerFrame, Zenon DEF buildVars
<1>5. ASSUME NEW o \in Orders, LoopSpawn(o) PROVE LateFinishedHasResult'
  BY <1>1, <1>5, Zenon DEF LoopSpawn, LateFinishedHasResult, TypeOK, memVars
<1>6. ASSUME NEW o \in Orders, ContainerExit(o) PROVE LateFinishedHasResult'
  BY <1>2, <1>6, Zenon DEF ContainerExit, memVars, taskVars
<1>7. CASE Evict
  BY <1>7, Zenon DEF Evict, EvictWorkorders, taskVars, LateFinishedHasResult, Gone
<1>8. CASE Crash
  BY <1>8, Zenon DEF Crash, LateFinishedHasResult
<1>9. CASE LoopSleep \/ SaverNext \/ UNCHANGED vars
  BY <1>2, <1>9, SaverFrame, Zenon DEF buildVars
<1> QED
  BY <1>3, <1>4, <1>5, <1>6, <1>7, <1>8, <1>9, LateTask, ZenonT(60) DEF Next, LoopNext

\* On the paths that ran a container process_workorder stores the result
\* before it broadcasts Finished, whatever is evicted meanwhile.
THEOREM LateFinishedHasResultHolds == Spec => []LateFinishedHasResult
<1>1. Init => LateFinishedHasResult
  BY Zenon DEF Init, LateFinishedHasResult
<1> QED
  BY <1>1, LateStep, Invariance, PTL DEF Spec

(***************************************************************************)
(* The builds_active gauge: what it counts is a set of tasks that grows    *)
(* where it is incremented and shrinks where it is decremented.            *)
(***************************************************************************)
Uncounted == {"none", "spawned", "cleanup", "remove"}
Counted == {o \in Orders : task[o] \notin Uncounted}

\* There are finitely many tasks to count.
LEMMA CountedFinite == IsFiniteSet(Counted) /\ Cardinality(Counted) \in Nat
<1>1. IsFiniteSet(Orders)
  BY FS_Interval, BoundAssumption DEF Orders
<1>2. Counted \in SUBSET Orders
  BY Zenon DEF Counted
<1> QED
  BY <1>1, <1>2, FS_Subset, FS_CardinalityType, Zenon

\* The gauge follows a task that starts or stops being counted.
LEMMA GaugeMove ==
  ASSUME TypeOK, BuildsActiveExact, NEW o \in Orders, NEW step \in TaskStep,
         task' = [task EXCEPT ![o] = step],
         \/ task[o] \in Uncounted /\ step \notin Uncounted /\ building' = building + 1
         \/ task[o] \notin Uncounted /\ step \in Uncounted /\ building' = building - 1
         \/ (task[o] \in Uncounted <=> step \in Uncounted) /\ building' = building
  PROVE  BuildsActiveExact'
<1>1. BuildsActiveExact <=> building = Cardinality(Counted)
  BY Zenon DEF BuildsActiveExact, Counted, Uncounted
<1>2. BuildsActiveExact' <=> building' = Cardinality(Counted')
  BY Zenon DEF BuildsActiveExact, Counted, Uncounted
<1>3. \A p \in Orders : task'[p] = IF p = o THEN step ELSE task[p]
  BY Zenon DEF TypeOK
<1>4. CASE task[o] \in Uncounted /\ step \notin Uncounted /\ building' = building + 1
  <2>1. Counted' = Counted \cup {o} /\ o \notin Counted
    BY <1>3, <1>4, Zenon DEF Counted
  <2> QED
    BY <1>1, <1>2, <1>4, <2>1, CountedFinite, FS_AddElement, ZenonT(60)
<1>5. CASE task[o] \notin Uncounted /\ step \in Uncounted /\ building' = building - 1
  <2>1. Counted' = Counted \ {o} /\ o \in Counted
    BY <1>3, <1>5, Zenon DEF Counted
  <2> QED
    BY <1>1, <1>2, <1>5, <2>1, CountedFinite, FS_RemoveElement, ZenonT(60)
<1>6. CASE (task[o] \in Uncounted <=> step \in Uncounted) /\ building' = building
  <2>1. Counted' = Counted
    BY <1>3, <1>6, Zenon DEF Counted
  <2> QED
    BY <1>1, <1>2, <1>6, <2>1, Zenon
<1> QED
  BY <1>4, <1>5, <1>6, Zenon

\* Every step of a task moves the gauge as it moves the task.
LEMMA GaugeTask ==
  ASSUME IInv, BuildsActiveExact, NEW o \in Orders, TaskNext(o)
  PROVE  BuildsActiveExact'
<1>1. TypeOK
  BY Zenon DEF IInv
<1>2. CASE TaskSkip(o) \/ TaskPanic(o) \/ TaskRemove(o) \/ TaskBegin(o) \/ TaskCleanup(o)
  BY <1>1, <1>2, GaugeMove, Zenon DEF TaskSkip, TaskPanic, TaskRemove, TaskBegin, TaskCleanup,
     Release, Goto, Uncounted, TaskStep, gaugeVars
<1>3. CASE TaskImage(o) \/ TaskStage(o) \/ TaskStart(o) \/ TaskIngest(o)
  BY <1>1, <1>3, GaugeMove, Zenon DEF TaskImage, TaskStage, TaskStart, TaskIngest, Aim, Goto,
     Uncounted, TaskStep, gaugeVars
<1>4. CASE TaskRecord(o) \/ TaskAttach(o) \/ TaskWait(o) \/ TaskTimeout(o)
           \/ TaskWaitError(o) \/ TaskClone(o)
  BY <1>1, <1>4, GaugeMove, Zenon DEF TaskRecord, TaskAttach, TaskWait, TaskTimeout,
     TaskWaitError, TaskClone, Goto, Uncounted, TaskStep, gaugeVars
<1>5. CASE TaskSet(o) \/ TaskWrite(o)
  <2>1. AfterStatus(goal[o]) \in {"stage", "announce", "store"}
    BY Zenon DEF AfterStatus
  <2>2. \E step \in {"stage", "announce", "store", "clone"} :
           task' = [task EXCEPT ![o] = step]
    BY <1>5, <2>1, Zenon DEF TaskSet, TaskWrite, Goto
  <2>3. task[o] \in {"set", "write"} /\ building' = building
    BY <1>5, Zenon DEF TaskSet, TaskWrite, gaugeVars
  <2> QED
    BY <1>1, <2>2, <2>3, GaugeMove, Zenon DEF Uncounted, TaskStep
<1>6. CASE TaskAnnounce(o) \/ TaskStore(o)
  BY <1>1, <1>6, GaugeMove, Zenon DEF TaskAnnounce, TaskStore, Goto, Uncounted, TaskStep
<1> QED
  BY <1>2, <1>3, <1>4, <1>5, <1>6, Zenon DEF TaskNext, TaskAdvance

\* Only tasks move the gauge, and a restart sets it to zero with no task.
LEMMA GaugeStep == IInv /\ BuildsActiveExact /\ [Next]_vars => BuildsActiveExact'
<1> SUFFICES ASSUME IInv, BuildsActiveExact, [Next]_vars PROVE BuildsActiveExact'
  OBVIOUS
<1>1. TypeOK /\ ClaimInv
  BY Zenon DEF IInv
<1>2. CASE UNCHANGED <<task, building>>
  BY <1>2, Zenon DEF BuildsActiveExact
<1>3. ASSUME NEW o \in Orders, LoopSpawn(o) PROVE BuildsActiveExact'
  BY <1>1, <1>3, GaugeMove, Zenon DEF LoopSpawn, ClaimInv, Uncounted, TaskStep, gaugeVars
<1>4. ASSUME NEW o \in Orders, ContainerExit(o) PROVE UNCHANGED <<task, building>>
  BY <1>4, Zenon DEF ContainerExit, taskVars, gaugeVars
<1>5. CASE Evict
  BY <1>2, <1>5, Zenon DEF Evict, EvictWorkorders, taskVars, gaugeVars
<1>6. CASE Crash
  <2>1. Counted' = {}
    BY <1>6, Zenon DEF Crash, Counted, Uncounted
  <2> QED
    BY <1>6, <2>1, FS_EmptySet, Zenon DEF Crash, BuildsActiveExact, Counted, Uncounted
<1> QED
  BY <1>2, <1>3, <1>4, <1>5, <1>6, GaugeTask, HandlerFrame, SaverFrame, ZenonT(60)
  DEF Next, LoopNext, buildVars

\* metrics.builds_active is the number of tasks between their start and their
\* last event, on the early failures, the late paths and the panic alike.
THEOREM BuildsActiveExactHolds == Spec => []BuildsActiveExact
<1>1. ASSUME Init PROVE BuildsActiveExact
  <2>1. Counted = {}
    BY <1>1, Zenon DEF Init, Counted, Uncounted
  <2> QED
    BY <1>1, <2>1, FS_EmptySet, Zenon DEF Init, BuildsActiveExact, Counted, Uncounted
<1> QED
  BY <1>1, GaugeStep, Invariance, PTL DEF Spec

(***************************************************************************)
(* Container names. Until the server restarts a container belongs to an    *)
(* order whose task has passed start_worker, and such an order is never    *)
(* queued again.                                                           *)
(***************************************************************************)
\* The task of the order has yet to call start_worker.
BeforeStart(o) ==
    \/ task[o] \in {"spawned", "image", "stage", "start"}
    \/ task[o] \in {"set", "clone", "write"} /\ goal[o] = "building"

\* The order may still be given a task, or its task may still start a worker.
Startable(o) ==
    \/ BeforeStart(o)
    \/ status[o] \in {"absent", "pending"}
    \/ loop.at = "claimed" /\ loop.order = o

NameInv ==
    /\ \A o \in Orders : task[o] # "none" \/ (loop.at = "claimed" /\ loop.order = o)
                            => status[o] # "absent"
    /\ \A o \in Orders : crashes = 0 /\ Startable(o) => container[o] = "none"

\* Steps that leave the containers alone and make no order startable.
LEMMA NameKept ==
  ASSUME NameInv, UNCHANGED <<container, crashes>>,
         \A o \in Orders : Startable(o)' => Startable(o),
         \A o \in Orders : /\ status'[o] = "absent" => status[o] = "absent"
                           /\ task'[o] # "none" \/ (loop'.at = "claimed" /\ loop'.order = o)
                                => \/ status'[o] # "absent"
                                   \/ task[o] # "none"
                                   \/ loop.at = "claimed" /\ loop.order = o
  PROVE  NameInv'
  BY Zenon DEF NameInv

\* start_worker is the last step before the name is taken, and no later step
\* of the task comes back to it.
LEMMA NameTask ==
  ASSUME IInv, NameInv, NEW o \in Orders, TaskNext(o)
  PROVE  NameInv'
<1>1. TypeOK /\ ClaimInv
  BY Zenon DEF IInv
<1>2. /\ task[o] # "none" /\ status[o] \notin {"absent", "pending"}
      /\ ~(loop.at = "claimed" /\ loop.order = o)
  <2>1. task[o] # "none"
    BY Zenon DEF TaskNext, TaskAdvance, TaskSkip, TaskBegin, TaskImage, TaskSet, TaskClone,
       TaskWrite, TaskStage, TaskStart, TaskRecord, TaskAttach, TaskPanic, TaskWait,
       TaskTimeout, TaskWaitError, TaskIngest, TaskAnnounce, TaskStore, TaskCleanup,
       TaskRemove
  <2> QED
    BY <1>1, <2>1, Zenon DEF ClaimInv, ClaimedOnce, NameInv
<1>3. UNCHANGED <<loop, crashes>>
  BY Zenon DEF TaskNext, TaskAdvance, TaskSkip, TaskBegin, TaskImage, TaskSet, TaskClone,
     TaskWrite, TaskStage, TaskStart, TaskRecord, TaskAttach, TaskPanic, TaskWait,
     TaskTimeout, TaskWaitError, TaskIngest, TaskAnnounce, TaskStore, TaskCleanup,
     TaskRemove, historyVars
<1>4. \A p \in Orders \ {o} : /\ task'[p] = task[p] /\ goal'[p] = goal[p]
                               /\ status'[p] = status[p]
  <2>1. CASE PlainMove(o)
    BY <1>1, <2>1, PlainMoveFrame, ZenonT(60)
  <2>2. CASE TaskSet(o) \/ TaskClone(o) \/ TaskWrite(o)
    BY <1>1, <2>2, SMTT(40) DEF TaskSet, TaskClone, TaskWrite, Goto, TypeOK
  <2> QED
    BY <2>1, <2>2, Zenon DEF TaskNext, TaskAdvance, PlainMove
<1>5. \A p \in Orders \ {o} : container'[p] = container[p]
  <2> USE <1>1 DEF TypeOK
  <2>1. CASE TaskStart(o) \/ TaskTimeout(o) \/ TaskRemove(o)
    BY <2>1, Zenon DEF TaskStart, TaskTimeout, TaskRemove, StopContainer
  <2>2. CASE UNCHANGED container
    BY <2>2, Zenon
  <2> QED
    BY <2>1, <2>2, ZenonT(60) DEF TaskNext, TaskAdvance, TaskSkip, TaskBegin, TaskImage, TaskSet,
       TaskClone, TaskWrite, TaskStage, TaskRecord, TaskAttach, TaskPanic, TaskWait,
       TaskWaitError, TaskIngest, TaskAnnounce, TaskStore, TaskCleanup
<1>6. status'[o] \notin {"absent", "pending"}
  <2>1. CASE PlainMove(o)
    BY <1>1, <1>2, <2>1, PlainMoveFrame, Zenon
  <2>2. CASE TaskSet(o) \/ TaskClone(o) \/ TaskWrite(o)
    BY <1>1, <1>2, <2>2, ZenonT(60) DEF TaskSet, TaskClone, TaskWrite, StatusOf, TypeOK, Goal
  <2> QED
    BY <2>1, <2>2, Zenon DEF TaskNext, TaskAdvance, PlainMove
<1>7. BeforeStart(o)' => BeforeStart(o) /\ UNCHANGED container
  <2> USE <1>1 DEF BeforeStart, TypeOK
  <2>1. CASE TaskSkip(o) \/ TaskBegin(o) \/ TaskImage(o) \/ TaskStage(o)
    BY <2>1, Zenon DEF TaskSkip, TaskBegin, TaskImage, TaskStage, Release, Aim, Goto
  <2>2. CASE TaskStart(o) \/ TaskIngest(o)
    BY <2>2, Zenon DEF TaskStart, TaskIngest, Aim, Goto
  <2>3. CASE TaskSet(o) \/ TaskWrite(o)
    <3>1. goal[o] \in Goal /\ (AfterStatus(goal[o]) = "stage" => goal[o] = "building")
          /\ AfterStatus(goal[o]) \in {"stage", "announce", "store"}
      <4>1. goal[o] \in Goal
        OBVIOUS
      <4> QED
        BY <4>1, Zenon DEF AfterStatus, Goal
    <3> QED
      BY <2>3, <3>1, ZenonT(60) DEF TaskSet, TaskWrite, Goto
  <2>4. CASE TaskClone(o)
    BY <2>4, Zenon DEF TaskClone, Goto
  <2>5. CASE TaskRecord(o) \/ TaskAttach(o) \/ TaskPanic(o) \/ TaskWait(o) \/ TaskTimeout(o)
             \/ TaskWaitError(o)
    BY <2>5, ZenonT(60) DEF TaskRecord, TaskAttach, TaskPanic, TaskWait, TaskTimeout, TaskWaitError,
       Release, Goto
  <2>6. CASE TaskAnnounce(o) \/ TaskStore(o) \/ TaskCleanup(o) \/ TaskRemove(o)
    BY <2>6, ZenonT(60) DEF TaskAnnounce, TaskStore, TaskCleanup, TaskRemove, Release, Goto
  <2> QED
    BY <2>1, <2>2, <2>3, <2>4, <2>5, <2>6, ZenonT(60) DEF TaskNext, TaskAdvance
<1>8. ASSUME NEW p \in Orders, crashes' = 0, Startable(p)' PROVE container'[p] = "none"
  <2>1. CASE p = o
    BY <1>2, <1>3, <1>6, <1>7, <1>8, <2>1, Zenon DEF NameInv, Startable
  <2>2. CASE p # o
    BY <1>3, <1>4, <1>5, <1>8, <2>2, Zenon DEF NameInv, Startable, BeforeStart
  <2> QED
    BY <2>1, <2>2, Zenon
<1> QED
  BY <1>2, <1>3, <1>4, <1>6, <1>8, Zenon DEF NameInv

\* Handlers, the queue loop, exits and evictions make no built order startable.
LEMMA NameStep == IInv /\ NameInv /\ [Next]_vars => NameInv'
<1> SUFFICES ASSUME IInv, NameInv, [Next]_vars PROVE NameInv'
  OBVIOUS
<1>1. TypeOK /\ ClaimInv
  BY Zenon DEF IInv
<1>2. ASSUME NEW o \in Orders, SubmitNext(o) PROVE NameInv'
  <2>1. UNCHANGED <<task, goal, loop, container, crashes>>
    BY <1>2, Zenon DEF SubmitNext, SubmitAdvance, SubmitArrive, SubmitCheck, SubmitConflict,
       SubmitInsert, SubmitActivate, SubmitCount, SubmitSave, SubmitDrop, taskVars,
       historyVars
  <2>2. \A p \in Orders : status'[p] = status[p] \/ (status[p] = "absent" /\ status'[p] = "pending")
    BY <1>1, <1>2, ZenonT(60) DEF SubmitNext, SubmitAdvance, SubmitArrive, SubmitCheck,
       SubmitConflict, SubmitInsert, SubmitActivate, SubmitCount, SubmitSave,
       SubmitDrop, TypeOK, ClaimInv, Uninserted, Unseen
  <2> QED
    BY <2>1, <2>2, NameKept, Zenon DEF Startable, BeforeStart
<1>3. ASSUME NEW o \in Orders, CancelMark(o) \/ CancelClear(o) \/ CancelDrop(o) PROVE NameInv'
  <2>1. UNCHANGED <<task, goal, loop, container, crashes>>
    BY <1>3, Zenon DEF CancelMark, CancelClear, CancelDrop, taskVars, historyVars
  <2>2. \A p \in Orders : status'[p] \in {status[p], "cancelled"}
    BY <1>1, <1>3, Zenon DEF CancelMark, CancelClear, CancelDrop, TypeOK
  <2> QED
    BY <2>1, <2>2, NameKept, Zenon DEF Startable, BeforeStart
<1>4. ASSUME NEW o \in Orders, CancelStop(o) \/ ContainerExit(o) PROVE NameInv'
  <2>1. UNCHANGED <<status, task, goal, loop, crashes>>
    BY <1>4, Zenon DEF CancelStop, ContainerExit, taskVars, historyVars
  <2>2. \A p \in Orders : container[p] = "none" => container'[p] = "none"
    BY <1>1, <1>4, ZenonT(60) DEF CancelStop, StopContainer, ContainerExit, TypeOK
  <2> QED
    BY <2>1, <2>2, Zenon DEF NameInv, Startable, BeforeStart
<1>5. ASSUME NEW o \in Orders, LoopPick(o) \/ LoopMiss(o) PROVE NameInv'
  <2>1. UNCHANGED <<status, task, goal, container, crashes>>
    BY <1>5, Zenon DEF LoopPick, LoopMiss, historyVars
  <2>2. loop'.at # "claimed"
    <3>1. CASE LoopPick(o)
      BY <3>1, Zenon DEF LoopPick
    <3>2. CASE LoopMiss(o)
      BY <3>2, Zenon DEF LoopMiss
    <3> QED
      BY <1>5, <3>1, <3>2, Zenon
  <2> QED
    BY <2>1, <2>2, NameKept, Zenon DEF Startable, BeforeStart
<1>6. ASSUME NEW o \in Orders, LoopClaim(o) PROVE NameInv'
  BY <1>1, <1>6, NameKept, ZenonT(60) DEF LoopClaim, Startable, BeforeStart, TypeOK, historyVars
<1>7. ASSUME NEW o \in Orders, LoopSpawn(o) PROVE NameInv'
  BY <1>1, <1>7, NameKept, ZenonT(60) DEF LoopSpawn, Startable, BeforeStart, TypeOK, historyVars,
     NoOrder, Orders
<1>8. CASE Evict
  <2>1. /\ UNCHANGED <<task, goal, loop, container, crashes>>
        /\ \A p \in Orders : status'[p] \in {status[p], "evicted"}
    BY <1>8, Zenon DEF Evict, EvictWorkorders, taskVars, historyVars
  <2> QED
    BY <2>1, NameKept, Zenon DEF Startable, BeforeStart
<1>9. CASE Crash
  <2>1. crashes' # 0
    BY <1>1, <1>9 DEF Crash, TypeOK
  <2> QED
    BY <1>9, <2>1, ZenonT(60) DEF Crash, NameInv
<1>10. CASE LoopSleep \/ SaverNext \/ UNCHANGED vars
  BY <1>10, SaverFrame, NameKept, ZenonT(60) DEF buildVars, Startable, BeforeStart
<1> QED
  BY <1>2, <1>3, <1>4, <1>5, <1>6, <1>7, <1>8, <1>9, <1>10, NameTask, ZenonT(60)
  DEF Next, CancelNext, CancelAdvance, LoopNext

\* Until the server restarts start_worker finds no container of the name it
\* is about to use, however builds fail, time out or are cancelled.
THEOREM FreshContainerNameHolds == Spec => []FreshContainerName
<1>1. ASSUME Init PROVE NameInv
  <2>1. \A o \in Orders : task[o] = "none" /\ container[o] = "none"
    BY <1>1, Zenon DEF Init
  <2>2. loop.at = "look"
    BY <1>1, Zenon DEF Init
  <2> QED
    BY <2>1, <2>2, Zenon DEF NameInv
<1>2. NameInv => FreshContainerName
  BY Zenon DEF NameInv, FreshContainerName, Startable, BeforeStart
<1> QED
  BY <1>1, <1>2, NameStep, Invariance, PTL DEF Spec


(***************************************************************************)
(* The queue_depth gauge. A request changes the map under one lock and the *)
(* gauge after it, so the gauge equals the pending orders, plus the        *)
(* cancelled ones it still counts, less the inserted ones it does not yet  *)
(* count; AtomicU64 arithmetic wraps, so all of it is modulo DepthModulus. *)
(***************************************************************************)
Queued == {o \in Orders : status[o] = "pending"}
Undiscounted == {o \in Orders : cancel[o] = "pending"}
Unreported == {o \in Orders : submit[o] \in {"inserted", "active"}}
Level == Cardinality(Queued) + Cardinality(Undiscounted) - Cardinality(Unreported)

\* Adding before or after wrapping makes no difference: what fetch_add and
\* fetch_sub leave is the exact count, wrapped.
LEMMA ModShift ==
  ASSUME NEW m \in Nat \ {0}, NEW x \in Int, NEW e \in Int
  PROVE  ((x % m) + e) % m = (x + e) % m
<1>1. \A y \in Int : \E q \in Int, r \in 0 .. (m - 1) : r = y % m /\ y = m * q + r
  <2>1. \A y \in Int : y = m * (y \div m) + (y % m) /\ y % m \in 0 .. (m - 1) /\ y \div m \in Int
    BY SMT
  <2> QED
    BY <2>1, Zenon
<1>2. \A q \in Int, r \in 0 .. (m - 1) : (m * q + r) % m = r
  BY SMT
<1>3. PICK q \in Int, r \in 0 .. (m - 1) : r = x % m /\ x = m * q + r
  BY <1>1, Zenon
<1>4. r \in Int /\ r + e \in Int
  BY SMT
<1>5. PICK p \in Int, s \in 0 .. (m - 1) : s = (r + e) % m /\ r + e = m * p + s
  BY <1>1, <1>4, Zenon
<1>6. s \in Int /\ q + p \in Int
  BY SMT
<1>7. (m * q + r) + e = m * (q + p) + s
  <2>1. m * (q + p) = m * q + m * p /\ m * q \in Int /\ m * p \in Int
    BY SMT
  <2>2. \A a, b \in Int : r + e = b + s => (a + r) + e = (a + b) + s
    BY SMT
  <2>3. (m * q + r) + e = (m * q + m * p) + s
    BY <1>5, <2>1, <2>2, Zenon
  <2> QED
    BY <2>1, <2>3, Zenon
<1>8. ((m * q + r) + e) % m = s
  BY <1>2, <1>6, <1>7, Zenon
<1>9. (x + e) % m = s
  BY <1>3, <1>8, Zenon
<1> QED
  BY <1>3, <1>5, <1>9, Zenon

\* The three sets are finite sets of orders.
LEMMA QueueFinite ==
  ASSUME NEW S \in SUBSET Orders
  PROVE  IsFiniteSet(S) /\ Cardinality(S) \in Nat
<1>1. IsFiniteSet(Orders)
  BY FS_Interval, BoundAssumption DEF Orders
<1> QED
  BY <1>1, FS_Subset, FS_CardinalityType, Zenon

\* An order that joins one of them counts once ...
LEMMA OneJoins ==
  ASSUME NEW S \in SUBSET Orders, NEW o \in Orders, o \notin S
  PROVE  Cardinality(S \cup {o}) = Cardinality(S) + 1
  BY QueueFinite, FS_AddElement, Zenon

\* ... and so does one that leaves.
LEMMA OneLeaves ==
  ASSUME NEW S \in SUBSET Orders, NEW o \in S
  PROVE  Cardinality(S \ {o}) = Cardinality(S) - 1
  BY QueueFinite, FS_RemoveElement, Zenon

\* The sets the gauge is about, and their sizes.
LEMMA LevelTyped ==
  /\ Queued \in SUBSET Orders /\ Undiscounted \in SUBSET Orders /\ Unreported \in SUBSET Orders
  /\ Cardinality(Queued) \in Nat /\ Cardinality(Undiscounted) \in Nat
  /\ Cardinality(Unreported) \in Nat
  /\ Level \in Int
<1>1. Queued \in SUBSET Orders /\ Undiscounted \in SUBSET Orders /\ Unreported \in SUBSET Orders
  BY Zenon DEF Queued, Undiscounted, Unreported
<1>2. /\ Cardinality(Queued) \in Nat /\ Cardinality(Undiscounted) \in Nat
      /\ Cardinality(Unreported) \in Nat
  BY <1>1, QueueFinite, Zenon
<1>3. \A a, b, c \in Nat : a + b - c \in Int
  BY SMT
<1> QED
  BY <1>1, <1>2, <1>3, Zenon DEF Level

\* The invariant in terms of the level.
LEMMA DepthIsLevel ==
  QueueDepthExact <=> (crashes = 0 /\ dropped = {} => depth = Level % DepthModulus)
  BY Zenon DEF QueueDepthExact, Level, Queued, Undiscounted, Unreported

\* The gauge moves by as much as the level does.
LEMMA DepthMoves ==
  ASSUME QueueDepthExact, UNCHANGED <<crashes, dropped>>, NEW e \in Int,
         depth' = (depth + e) % DepthModulus, Level' = Level + e
  PROVE  QueueDepthExact'
<1> SUFFICES ASSUME crashes' = 0, dropped' = {} PROVE depth' = Level' % DepthModulus
  BY DepthIsLevel, Zenon DEF QueueDepthExact, Level, Queued, Undiscounted, Unreported
<1>1. depth = Level % DepthModulus
  BY DepthIsLevel, Zenon
<1>2. ((Level % DepthModulus) + e) % DepthModulus = (Level + e) % DepthModulus
  BY ModShift, LevelTyped, DepthAssumption, Zenon
<1> QED
  BY <1>1, <1>2, Zenon

\* Nothing the gauge is about changes.
LEMMA DepthStays ==
  ASSUME QueueDepthExact, UNCHANGED <<crashes, dropped, depth>>, Level' = Level
  PROVE  QueueDepthExact'
<1> SUFFICES ASSUME crashes' = 0, dropped' = {} PROVE depth' = Level' % DepthModulus
  BY Zenon DEF QueueDepthExact, Level, Queued, Undiscounted, Unreported
<1> QED
  BY DepthIsLevel, Zenon

\* A submission: the insertion adds an order to the queue that the gauge does
\* not count yet, and the count that follows makes up for it.
LEMMA DepthSubmit ==
  ASSUME IInv, QueueDepthExact, NEW o \in Orders, SubmitNext(o)
  PROVE  QueueDepthExact'
<1>1. /\ submit \in [Orders -> SubmitStep] /\ status \in [Orders -> Status]
      /\ \A p \in Orders : submit[p] = "locked" => status[p] = "absent"
  BY Zenon DEF IInv, TypeOK, ClaimInv, Uninserted, Unseen
<1>2. CASE SubmitArrive(o) \/ SubmitCheck(o) \/ SubmitConflict(o) \/ SubmitSave(o)
  <2>1. UNCHANGED <<crashes, dropped, depth, status, cancel>>
    BY <1>2, Zenon DEF SubmitArrive, SubmitCheck, SubmitConflict, SubmitSave, gaugeVars, historyVars
  <2>2. PICK step \in {"arrived", "locked", "refused", "done"} : submit' = [submit EXCEPT ![o] = step]
    BY <1>2, Zenon DEF SubmitArrive, SubmitCheck, SubmitConflict, SubmitSave
  <2>3. submit[o] \notin {"inserted", "active"}
    BY <1>2, Zenon DEF SubmitArrive, SubmitCheck, SubmitConflict, SubmitSave
  <2>4. \A p \in Orders : submit'[p] \in {"inserted", "active"} <=> submit[p] \in {"inserted", "active"}
    BY <1>1, <2>2, <2>3, Zenon
  <2>5. Unreported' = Unreported
    BY <2>4, Zenon DEF Unreported
  <2>6. Queued' = Queued /\ Undiscounted' = Undiscounted
    BY <2>1, Zenon DEF Queued, Undiscounted
  <2> QED
    BY <2>1, <2>5, <2>6, DepthStays, Zenon DEF Level
<1>3. CASE SubmitInsert(o)
  <2>1. /\ UNCHANGED <<crashes, dropped, depth, cancel>>
        /\ status' = [status EXCEPT ![o] = "pending"]
        /\ submit' = [submit EXCEPT ![o] = "inserted"]
        /\ submit[o] = "locked" /\ status[o] = "absent"
    BY <1>1, <1>3, Zenon DEF SubmitInsert, gaugeVars, historyVars
  <2>2. Queued' = Queued \cup {o} /\ o \notin Queued
    BY <1>1, <2>1, Zenon DEF Queued
  <2>3. Unreported' = Unreported \cup {o} /\ o \notin Unreported
    BY <1>1, <2>1, Zenon DEF Unreported
  <2>4. Undiscounted' = Undiscounted
    BY <2>1, Zenon DEF Undiscounted
  <2>5. /\ Cardinality(Queued') = Cardinality(Queued) + 1
        /\ Cardinality(Unreported') = Cardinality(Unreported) + 1
    BY <2>2, <2>3, OneJoins, LevelTyped, Zenon
  <2>6. Level' = Level
    BY <2>4, <2>5, LevelTyped, SMT DEF Level
  <2> QED
    BY <2>1, <2>6, DepthStays, Zenon
<1>4. CASE SubmitActivate(o)
  <2>1. /\ UNCHANGED <<crashes, dropped, depth, cancel, status>>
        /\ submit' = [submit EXCEPT ![o] = "active"]
        /\ submit[o] = "inserted"
    BY <1>4, Zenon DEF SubmitActivate, gaugeVars, historyVars
  <2>2. Unreported' = Unreported
    BY <1>1, <2>1, Zenon DEF Unreported
  <2>3. Queued' = Queued /\ Undiscounted' = Undiscounted
    BY <2>1, Zenon DEF Queued, Undiscounted
  <2> QED
    BY <2>1, <2>2, <2>3, DepthStays, Zenon DEF Level
<1>5. CASE SubmitCount(o)
  <2>1. /\ UNCHANGED <<crashes, dropped, cancel, status>>
        /\ submit' = [submit EXCEPT ![o] = "counted"]
        /\ submit[o] = "active"
        /\ depth' = (depth + 1) % DepthModulus
    BY <1>5, Zenon DEF SubmitCount, historyVars
  <2>2. Unreported' = Unreported \ {o} /\ o \in Unreported
    BY <1>1, <2>1, Zenon DEF Unreported
  <2>3. Queued' = Queued /\ Undiscounted' = Undiscounted
    BY <2>1, Zenon DEF Queued, Undiscounted
  <2>4. Cardinality(Unreported') = Cardinality(Unreported) - 1
    BY <2>2, OneLeaves, LevelTyped, Zenon
  <2>5. Level' = Level + 1 /\ 1 \in Int
    BY <2>3, <2>4, LevelTyped, SMT DEF Level
  <2> QED
    BY <2>1, <2>5, DepthMoves, Zenon
<1>6. CASE SubmitDrop(o)
  <2>1. dropped' # {}
    BY <1>6, Zenon DEF SubmitDrop
  <2> QED
    BY <2>1, Zenon DEF QueueDepthExact
<1> QED
  BY <1>2, <1>3, <1>4, <1>5, <1>6, Zenon DEF SubmitNext, SubmitAdvance

\* A cancellation takes a pending order out of the queue and only then out of
\* the gauge; one of an order that was claimed leaves both alone.
LEMMA DepthCancel ==
  ASSUME IInv, QueueDepthExact, NEW o \in Orders, CancelNext(o)
  PROVE  QueueDepthExact'
<1>1. cancel \in [Orders -> CancelStep] /\ status \in [Orders -> Status]
  BY Zenon DEF IInv, TypeOK
<1>2. CASE CancelMark(o)
  <2>1. /\ UNCHANGED <<crashes, dropped, depth, submit>>
        /\ status' = [status EXCEPT ![o] = "cancelled"]
        /\ cancel' = [cancel EXCEPT ![o] = status[o]]
        /\ cancel[o] = "none"
    BY <1>2, Zenon DEF CancelMark, gaugeVars
  <2>2. Unreported' = Unreported
    BY <2>1, Zenon DEF Unreported
  <2>3. CASE status[o] = "pending"
    <3>1. Queued' = Queued \ {o} /\ o \in Queued
      BY <1>1, <2>1, <2>3, Zenon DEF Queued
    <3>2. Undiscounted' = Undiscounted \cup {o} /\ o \notin Undiscounted
      BY <1>1, <2>1, <2>3, Zenon DEF Undiscounted
    <3>3. /\ Cardinality(Queued') = Cardinality(Queued) - 1
          /\ Cardinality(Undiscounted') = Cardinality(Undiscounted) + 1
      BY <3>1, <3>2, OneJoins, OneLeaves, LevelTyped, Zenon
    <3>4. Level' = Level
      BY <2>2, <3>3, LevelTyped, SMT DEF Level
    <3> QED
      BY <2>1, <3>4, DepthStays, Zenon
  <2>4. CASE status[o] # "pending"
    <3>1. Queued' = Queued
      BY <1>1, <2>1, <2>4, Zenon DEF Queued
    <3>2. Undiscounted' = Undiscounted
      BY <1>1, <2>1, <2>4, Zenon DEF Undiscounted
    <3> QED
      BY <2>1, <2>2, <3>1, <3>2, DepthStays, Zenon DEF Level
  <2> QED
    BY <2>3, <2>4, Zenon
<1>3. CASE CancelClear(o)
  <2>1. /\ UNCHANGED <<crashes, dropped, submit, status>>
        /\ depth' = IF cancel[o] = "pending" THEN (depth - 1) % DepthModulus ELSE depth
        /\ \A p \in Orders \ {o} : cancel'[p] = cancel[p]
        /\ cancel'[o] # "pending"
    BY <1>1, <1>3, Zenon DEF CancelClear, historyVars
  <2>2. Unreported' = Unreported /\ Queued' = Queued
    BY <2>1, Zenon DEF Unreported, Queued
  <2>3. CASE cancel[o] = "pending"
    <3>1. Undiscounted' = Undiscounted \ {o} /\ o \in Undiscounted
      BY <2>1, <2>3, Zenon DEF Undiscounted
    <3>2. Cardinality(Undiscounted') = Cardinality(Undiscounted) - 1
      BY <3>1, OneLeaves, LevelTyped, Zenon
    <3>3. Level' = Level + (-1)
      BY <2>2, <3>2, LevelTyped, SMT DEF Level
    <3>4. -1 \in Int /\ depth - 1 = depth + (-1)
      BY SMT DEF IInv, TypeOK
    <3> QED
      BY <2>1, <2>3, <3>3, <3>4, DepthMoves, Zenon
  <2>4. CASE cancel[o] # "pending"
    <3>1. Undiscounted' = Undiscounted
      BY <2>1, <2>4, Zenon DEF Undiscounted
    <3> QED
      BY <2>1, <2>2, <2>4, <3>1, DepthStays, ZenonT(60) DEF Level
  <2> QED
    BY <2>3, <2>4, Zenon
<1>4. CASE CancelStop(o)
  <2>1. /\ UNCHANGED <<crashes, dropped, depth, submit, status>>
        /\ cancel' = [cancel EXCEPT ![o] = "none"]
        /\ cancel[o] = "stop"
    BY <1>4, Zenon DEF CancelStop, gaugeVars, historyVars
  <2>2. Undiscounted' = Undiscounted
    BY <1>1, <2>1, Zenon DEF Undiscounted
  <2>3. Unreported' = Unreported /\ Queued' = Queued
    BY <2>1, Zenon DEF Unreported, Queued
  <2> QED
    BY <2>1, <2>2, <2>3, DepthStays, ZenonT(60) DEF Level
<1>5. CASE CancelDrop(o)
  <2>1. dropped' # {}
    BY <1>5, Zenon DEF CancelDrop
  <2> QED
    BY <2>1, Zenon DEF QueueDepthExact
<1> QED
  BY <1>2, <1>3, <1>4, <1>5, Zenon DEF CancelNext, CancelAdvance

\* The queue loop takes an order out of the queue and out of the gauge at once.
LEMMA DepthLoop ==
  ASSUME IInv, QueueDepthExact, NEW o \in Orders, LoopNext(o)
  PROVE  QueueDepthExact'
<1>1. UNCHANGED <<crashes, dropped, submit, cancel>>
  BY Zenon DEF LoopNext, LoopPick, LoopClaim, LoopMiss, LoopSpawn, historyVars
<1>2. Unreported' = Unreported /\ Undiscounted' = Undiscounted
  BY <1>1, Zenon DEF Unreported, Undiscounted
<1>3. CASE LoopClaim(o)
  <2>1. /\ status[o] = "pending" /\ status' = [status EXCEPT ![o] = "provisioning"]
        /\ depth' = (depth - 1) % DepthModulus
    BY <1>3, Zenon DEF LoopClaim
  <2>2. Queued' = Queued \ {o} /\ o \in Queued
    BY <2>1, Zenon DEF Queued, IInv, TypeOK
  <2>3. Cardinality(Queued') = Cardinality(Queued) - 1
    BY <2>2, OneLeaves, LevelTyped, Zenon
  <2>4. Level' = Level + (-1)
    BY <1>2, <2>3, LevelTyped, SMTT(40) DEF Level
  <2>5. -1 \in Int /\ depth - 1 = depth + (-1)
    BY SMT DEF IInv, TypeOK
  <2> QED
    BY <1>1, <2>1, <2>4, <2>5, DepthMoves, Zenon
<1>4. CASE LoopPick(o) \/ LoopMiss(o) \/ LoopSpawn(o)
  <2>1. UNCHANGED <<status, depth>>
    BY <1>4, Zenon DEF LoopPick, LoopMiss, LoopSpawn, gaugeVars
  <2>2. Queued' = Queued
    BY <2>1, Zenon DEF Queued
  <2> QED
    BY <1>1, <1>2, <2>1, <2>2, DepthStays, Zenon DEF Level
<1> QED
  BY <1>3, <1>4, Zenon DEF LoopNext

\* A build task never works on a pending order, nor makes one of its order.
LEMMA DepthTask ==
  ASSUME IInv, QueueDepthExact, NEW o \in Orders, TaskNext(o)
  PROVE  QueueDepthExact'
<1>1. UNCHANGED <<crashes, dropped, submit, cancel, depth>>
  BY ZenonT(60) DEF TaskNext, TaskAdvance, TaskSkip, TaskBegin, TaskImage, TaskSet, TaskClone,
     TaskWrite, TaskStage, TaskStart, TaskRecord, TaskAttach, TaskPanic, TaskWait, TaskTimeout,
     TaskWaitError, TaskIngest, TaskAnnounce, TaskStore, TaskCleanup, TaskRemove, gaugeVars,
     historyVars
<1>2. Unreported' = Unreported /\ Undiscounted' = Undiscounted
  BY <1>1, Zenon DEF Unreported, Undiscounted
<1>3. Queued' = Queued
  <2>1. CASE TaskSet(o)
    <3>1. StatusOf(goal[o]) # "pending" /\ status[o] # "pending"
      BY <2>1, Zenon DEF TaskSet, StatusOf, Goal, IInv, TypeOK, ClaimInv, ClaimedOnce
    <3>2. status' = status \/ status' = [status EXCEPT ![o] = StatusOf(goal[o])]
      BY <2>1, Zenon DEF TaskSet
    <3>3. status \in [Orders -> Status]
      BY Zenon DEF IInv, TypeOK
    <3> QED
      BY <3>1, <3>2, <3>3, Zenon DEF Queued
  <2>2. CASE ~TaskSet(o)
    <3>1. UNCHANGED status
      BY <2>2, ZenonT(60) DEF TaskNext, TaskAdvance, TaskSkip, TaskBegin, TaskImage, TaskClone,
         TaskWrite, TaskStage, TaskStart, TaskRecord, TaskAttach, TaskPanic, TaskWait,
         TaskTimeout, TaskWaitError, TaskIngest, TaskAnnounce, TaskStore, TaskCleanup, TaskRemove
    <3> QED
      BY <3>1, Zenon DEF Queued
  <2> QED
    BY <2>1, <2>2, Zenon
<1> QED
  BY <1>1, <1>2, <1>3, DepthStays, ZenonT(60) DEF Level

\* No step takes the gauge away from the queue: an eviction only takes orders
\* that are no longer pending.
LEMMA DepthStep == IInv /\ QueueDepthExact /\ [Next]_vars => QueueDepthExact'
<1> SUFFICES ASSUME IInv, QueueDepthExact, [Next]_vars PROVE QueueDepthExact'
  OBVIOUS
<1>1. ASSUME UNCHANGED <<crashes, dropped, submit, cancel, depth, status>>
      PROVE  QueueDepthExact'
  BY <1>1, Zenon DEF QueueDepthExact
<1>2. CASE Evict
  <2>1. UNCHANGED <<crashes, dropped, submit, cancel, depth>>
    BY <1>2, Zenon DEF Evict, EvictWorkorders, gaugeVars, historyVars
  <2>2. PICK gone \in SUBSET Terminal(status) :
           status' = [p \in Orders |-> IF p \in gone THEN "evicted" ELSE status[p]]
    BY <1>2, Zenon DEF Evict, EvictWorkorders
  <2>3. Queued' = Queued
    BY <2>2, Zenon DEF Queued, Terminal, TerminalStatus
  <2>4. Unreported' = Unreported /\ Undiscounted' = Undiscounted
    BY <2>1, Zenon DEF Unreported, Undiscounted
  <2> QED
    BY <2>1, <2>3, <2>4, DepthStays, ZenonT(60) DEF Level
<1>3. CASE Crash
  <2>1. crashes' # 0
    BY <1>3, SMT DEF Crash, IInv, TypeOK
  <2> QED
    BY <2>1, ZenonT(60) DEF QueueDepthExact
<1>4. ASSUME NEW o \in Orders, ContainerExit(o) PROVE QueueDepthExact'
  BY <1>1, <1>4, Zenon DEF ContainerExit, gaugeVars, historyVars
<1>5. CASE LoopSleep \/ SaverNext \/ UNCHANGED vars
  BY <1>1, <1>5, ZenonT(60) DEF LoopSleep, SaverNext, SaveResults, SaveClone, SaveWrite, vars,
     gaugeVars, historyVars
<1> QED
  BY <1>2, <1>3, <1>4, <1>5, DepthSubmit, DepthCancel, DepthLoop, DepthTask, ZenonT(60) DEF Next

\* metrics.queue_depth is the number of pending orders, up to the requests
\* between their change of the map and their change of the gauge: create and
\* cancel handlers, the queue loop, the tasks and evictions in any order.
THEOREM QueueDepthExactHolds == Spec => []QueueDepthExact
<1>1. ASSUME Init PROVE QueueDepthExact
  <2>1. Queued = {} /\ Undiscounted = {} /\ Unreported = {}
    BY <1>1, Zenon DEF Init, Blank, Queued, Undiscounted, Unreported
  <2>2. Level = 0
    BY <2>1, FS_EmptySet, SMT DEF Level
  <2>3. 0 % DepthModulus = 0
    BY DepthAssumption, SMT
  <2> QED
    BY <1>1, <2>2, <2>3, DepthIsLevel, Zenon DEF Init
<1> QED
  BY <1>1, DepthStep, Invariance, PTL DEF Spec

(***************************************************************************)
(* The pool. Every step of the server is a step of WorkerPool or leaves    *)
(* the pool alone.                                                         *)
(***************************************************************************)
\* The variables that the pool is made of.
poolVars == <<status, loop, task>>

\* A server that has just started for the first time is an empty pool.
LEMMA PoolInit == Init => Pool!Init
  BY DEF Init, Pool!Init, Live, Blank

\* What leaves the map, the loop and the tasks alone leaves the pool alone.
LEMMA PoolStutter == UNCHANGED poolVars => UNCHANGED Pool!pvars
  BY Zenon DEF poolVars, Pool!pvars, Live

\* A submission is the one way into the queue.
LEMMA PoolEnqueue ==
  ASSUME IInv, NEW o \in Orders, SubmitInsert(o)
  PROVE  Pool!Enqueue(o)
<1>1. status[o] = "absent"
  BY Zenon DEF SubmitInsert, IInv, ClaimInv, Uninserted, Unseen
<1>2. UNCHANGED <<loop, task>> /\ status' = [status EXCEPT ![o] = "pending"]
  BY Zenon DEF SubmitInsert, taskVars
<1>3. status \in [Orders -> Status]
  BY Zenon DEF IInv, TypeOK
<1> QED
  BY <1>1, <1>2, <1>3, Zenon DEF Pool!Enqueue, Live

\* Cancelling a pending order withdraws it; the pool does not see the others.
LEMMA PoolCancel ==
  ASSUME IInv, NEW o \in Orders, CancelMark(o)
  PROVE  Pool!Withdraw(o) \/ UNCHANGED Pool!pvars
<1>1. /\ status[o] \in InFlightStatus
      /\ UNCHANGED <<loop, task>> /\ status' = [status EXCEPT ![o] = "cancelled"]
  BY Zenon DEF CancelMark, taskVars
<1>2. status \in [Orders -> Status]
  BY Zenon DEF IInv, TypeOK
<1>3. CASE status[o] = "pending"
  BY <1>1, <1>2, <1>3, Zenon DEF Pool!Withdraw, Live
<1>4. CASE status[o] # "pending"
  BY <1>1, <1>2, <1>4, Zenon DEF Pool!pvars, Live, InFlightStatus
<1> QED
  BY <1>3, <1>4, Zenon

\* The claim under the write lock takes a pending order.
LEMMA PoolTake ==
  ASSUME IInv, NEW o \in Orders, LoopClaim(o)
  PROVE  Pool!Take(o)
<1>1. /\ status[o] = "pending" /\ loop.at = "picked" /\ task' = task
      /\ loop' = [at |-> "claimed", order |-> o]
      /\ status' = [status EXCEPT ![o] = "provisioning"]
  BY Zenon DEF LoopClaim
<1>2. status \in [Orders -> Status]
  BY Zenon DEF IInv, TypeOK
<1> QED
  BY <1>1, <1>2, Zenon DEF Pool!Take, Live

\* A permit in hand means that fewer than max_workers tasks run.
LEMMA PoolStart ==
  ASSUME IInv, NEW o \in Orders, LoopSpawn(o)
  PROVE  Pool!Start(o)
<1>1. /\ loop.at = "claimed" /\ loop.order = o /\ permits > 0
      /\ task' = [task EXCEPT ![o] = "spawned"] /\ status' = status
      /\ loop' = [at |-> "look", order |-> NoOrder]
  BY Zenon DEF LoopSpawn
<1>2. task[o] = "none" /\ task \in [Orders -> TaskStep] /\ permits \in Nat
  BY <1>1, Zenon DEF IInv, ClaimInv, TypeOK
<1>3. Cardinality(Live) < MaxWorkers
  <2>1. Cardinality(Live) \in Nat
    BY LiveFinite, FS_CardinalityType, Zenon
  <2> QED
    BY <1>1, <1>2, <2>1, WorkerAssumption DEF IInv, PermitsConserved
<1>4. Live' = Live \cup {o} /\ o \notin Live
  BY <1>1, <1>2, Zenon DEF Live
<1> QED
  BY <1>1, <1>3, <1>4, Zenon DEF Pool!Start, Pool!Cardinality, Cardinality

\* set_workorder_status decides the outcome of an order or leaves the pool
\* alone: its order has left the queue and has no outcome yet.
LEMMA PoolSet ==
  ASSUME IInv, NEW o \in Orders, TaskSet(o)
  PROVE  Pool!Decide(o) \/ UNCHANGED Pool!pvars
<1>1. task[o] = "set" /\ loop' = loop
  BY Zenon DEF TaskSet
<1>2. /\ task \in [Orders -> TaskStep] /\ status \in [Orders -> Status]
      /\ goal \in [Orders -> Goal]
  BY Zenon DEF IInv, TypeOK
<1>3. status[o] \notin {"pending", "completed", "failed"}
  BY <1>1, Zenon DEF IInv, ClaimInv, ClaimedOnce, PhaseInv, Undecided
<1>4. Live' = Live /\ o \in Live
  BY <1>1, <1>2, Zenon DEF TaskSet, Goto, AfterStatus, Live
<1>5. CASE status[o] \in Gone
  BY <1>1, <1>4, <1>5, Zenon DEF TaskSet, Pool!pvars
<1>6. CASE status[o] \notin Gone
  <2>1. status' = [status EXCEPT ![o] = StatusOf(goal[o])] /\ status[o] # "absent"
    BY <1>6, Zenon DEF TaskSet, Gone
  <2>2. StatusOf(goal[o]) \in {"building", "failed", "completed"}
    BY <1>2, Zenon DEF StatusOf, Goal
  <2>3. CASE StatusOf(goal[o]) = "building"
    BY <1>1, <1>2, <1>3, <1>4, <2>1, <2>3, ZenonT(60) DEF Pool!pvars
  <2>4. CASE StatusOf(goal[o]) \in {"failed", "completed"}
    BY <1>1, <1>2, <1>3, <1>4, <2>1, <2>4, ZenonT(60) DEF Pool!Decide
  <2> QED
    BY <2>2, <2>3, <2>4, Zenon
<1> QED
  BY <1>5, <1>6, Zenon

\* A step of a task that is not about the map ends the task or keeps it.
LEMMA PoolMove ==
  ASSUME IInv, NEW o \in Orders, PlainMove(o) \/ TaskClone(o) \/ TaskWrite(o)
  PROVE  Pool!Finish(o) \/ UNCHANGED Pool!pvars
<1>1. /\ UNCHANGED <<status, loop>>
      /\ task[o] \notin {"none", "panicked"}
      /\ \A p \in Orders \ {o} : task'[p] = task[p]
  <2>1. CASE PlainMove(o)
    BY <2>1, PlainMoveFrame, ZenonT(60) DEF IInv
  <2>2. CASE TaskClone(o) \/ TaskWrite(o)
    BY <2>2 DEF TaskClone, TaskWrite, Goto, IInv, TypeOK
  <2> QED
    BY <2>1, <2>2, Zenon
<1>2. o \in Live
  BY <1>1, Zenon DEF Live
<1>3. CASE task'[o] \in {"none", "panicked"}
  <2>1. Live' = Live \ {o}
    BY <1>1, <1>3, Zenon DEF Live
  <2> QED
    BY <1>1, <1>2, <2>1, Zenon DEF Pool!Finish
<1>4. CASE task'[o] \notin {"none", "panicked"}
  <2>1. Live' = Live
    BY <1>1, <1>4, Zenon DEF Live
  <2> QED
    BY <1>1, <2>1, Zenon DEF Pool!pvars
<1> QED
  BY <1>3, <1>4, Zenon

\* An eviction forgets outcomes and nothing else.
LEMMA PoolEvict ==
  ASSUME IInv, Evict
  PROVE  Pool!Forget
<1>1. PICK stale \in SUBSET Orders, extra \in SUBSET Orders : EvictWorkorders(stale, extra)
  BY Zenon DEF Evict
<1>2. /\ stale \subseteq Terminal(status) /\ extra \subseteq Terminal(status)
      /\ status' = [o \in Orders |-> IF o \in stale \cup extra THEN "evicted" ELSE status[o]]
      /\ UNCHANGED <<loop, task>>
  BY <1>1, Zenon DEF EvictWorkorders, taskVars
<1>3. \A o \in stale \cup extra : status[o] \in TerminalStatus
  BY <1>2, Zenon DEF Terminal
<1>4. Live' = Live
  BY <1>2, Zenon DEF Live
<1> QED
  BY <1>2, <1>3, <1>4, Zenon DEF Pool!Forget, TerminalStatus

\* A crash ends all work, and the orders in the file are queued or not.
LEMMA PoolRestart ==
  ASSUME Crash
  PROVE  Pool!Restart
<1>1. Live' = {} /\ loop'.at = "look"
  BY Zenon DEF Crash, Live
<1> QED
  BY <1>1, Zenon DEF Pool!Restart

\* Every step of the server is a step of the pool or does not concern it.
LEMMA PoolStep == IInv /\ [Next]_vars => [Pool!Next]_(Pool!pvars)
<1> SUFFICES ASSUME IInv, [Next]_vars PROVE [Pool!Next]_(Pool!pvars)
  OBVIOUS
<1>1. ASSUME NEW o \in Orders, SubmitNext(o), ~SubmitInsert(o) PROVE UNCHANGED poolVars
  BY <1>1, Zenon DEF SubmitNext, SubmitAdvance, SubmitArrive, SubmitCheck, SubmitConflict,
              SubmitActivate, SubmitCount, SubmitSave, SubmitDrop, poolVars, taskVars
<1>2. ASSUME NEW o \in Orders, CancelAdvance(o) \/ CancelDrop(o) \/ ContainerExit(o)
      PROVE  UNCHANGED poolVars
  BY <1>2, ZenonT(60) DEF CancelAdvance, CancelClear, CancelStop, CancelDrop, ContainerExit, poolVars, taskVars
<1>3. ASSUME NEW o \in Orders, LoopPick(o) \/ LoopMiss(o) PROVE UNCHANGED Pool!pvars
  <2>1. UNCHANGED <<status, task>> /\ loop.at # "claimed" /\ loop'.at # "claimed"
    <3>1. CASE LoopPick(o)
      BY <3>1, Zenon DEF LoopPick
    <3>2. CASE LoopMiss(o)
      BY <3>2, Zenon DEF LoopMiss
    <3> QED
      BY <1>3, <3>1, <3>2, Zenon
  <2> QED
    BY <2>1, Zenon DEF Pool!pvars, Live
<1>4. ASSUME LoopSleep \/ SaverNext \/ UNCHANGED vars PROVE UNCHANGED poolVars
  BY <1>4, Zenon DEF LoopSleep, SaverNext, SaveResults, SaveClone, SaveWrite, vars, poolVars, taskVars
<1>5. ASSUME NEW o \in Orders, SubmitNext(o) \/ CancelNext(o) \/ LoopNext(o) \/ TaskNext(o)
      PROVE  [Pool!Next]_(Pool!pvars)
  <2>1. \/ Pool!Enqueue(o) \/ Pool!Withdraw(o) \/ Pool!Take(o) \/ Pool!Start(o)
        \/ Pool!Decide(o) \/ Pool!Finish(o) \/ UNCHANGED Pool!pvars
    BY <1>1, <1>2, <1>3, <1>5, PoolStutter, PoolEnqueue, PoolCancel, PoolTake, PoolStart,
       PoolSet, PoolMove, ZenonT(60)
    DEF CancelNext, LoopNext, TaskNext, TaskAdvance, PlainMove
  <2> QED
    BY <2>1, Zenon DEF Pool!Next
<1>6. CASE Evict
  BY <1>6, PoolEvict, Zenon DEF Pool!Next
<1>7. CASE Crash
  BY <1>7, PoolRestart, Zenon DEF Pool!Next
<1> QED
  BY <1>2, <1>4, <1>5, <1>6, <1>7, PoolStutter, ZenonT(60) DEF Next

\* The server implements the pool of workers.
THEOREM PoolRefinement == Spec => ImplementsPool
  BY PoolInit, PoolStep, Invariance, PTL DEF Spec, ImplementsPool, Pool!Spec

(***************************************************************************)
(* The map is within the limit, and so are the file and every clone that   *)
(* may still be written, since each was the map at some moment. A handler  *)
(* past the check leaves room for the order it is about to insert. Without *)
(* a cancellation no status says cancelled, so a build task never brings   *)
(* an order back into flight.                                              *)
(***************************************************************************)
Within(map) ==
    /\ Cardinality(InFlight(map)) <= MaxActive
    /\ \A o \in Orders : map[o] # "cancelled"

CapInv ==
    MaxActive > 0 /\ cancelled = {} =>
        /\ Within(status) /\ Within(disk)
        /\ \A w \in Orders \cup {NoOrder} : Within(snap[w])
        /\ \A o \in Orders : submit[o] = "locked" => Cardinality(InFlight(status)) < MaxActive

\* A set of orders can be counted, and a part of it counts no more.
LEMMA CountOrders ==
  ASSUME NEW S \in SUBSET Orders, NEW T \in SUBSET S
  PROVE  /\ IsFiniteSet(S) /\ Cardinality(S) \in Nat /\ Cardinality(T) \in Nat
         /\ Cardinality(T) <= Cardinality(S)
<1>1. IsFiniteSet(Orders)
  BY FS_Interval, BoundAssumption DEF Orders
<1>2. IsFiniteSet(S) /\ IsFiniteSet(T)
  BY <1>1, FS_Subset, Zenon
<1> QED
  BY <1>2, FS_Subset, FS_CardinalityType, Zenon

\* Nothing is in flight in an empty map.
LEMMA BlankWithin == Within(Blank)
<1>1. InFlight(Blank) = {}
  BY Zenon DEF InFlight, Blank, InFlightStatus
<1> QED
  BY <1>1, FS_EmptySet, CapAssumption DEF Within, Blank

\* The limit holds when the server first starts.
LEMMA CapInit == Init => CapInv
<1> SUFFICES ASSUME Init, MaxActive > 0 PROVE CapInv
  BY Zenon DEF CapInv
<1>1. status = Blank /\ disk = Blank /\ \A w \in Orders \cup {NoOrder} : snap[w] = Blank
  BY Zenon DEF Init
<1>2. \A o \in Orders : submit[o] # "locked"
  BY Zenon DEF Init
<1> QED
  BY <1>1, <1>2, BlankWithin, Zenon DEF CapInv

\* Until a restart or an insertion no order comes into flight that was not.
LEMMA FlightShrinks ==
  ASSUME IInv, Next, ~Crash, \A o \in Orders : ~SubmitInsert(o),
         cancelled' = {}, \A o \in Orders : status[o] # "cancelled"
  PROVE  /\ InFlight(status') \subseteq InFlight(status)
         /\ \A o \in Orders : status'[o] # "cancelled"
<1>1. TypeOK /\ PhaseInv
  BY Zenon DEF IInv
<1>2. ASSUME NEW o \in Orders, LoopClaim(o)
      PROVE  \A p \in Orders : \/ status'[p] = status[p]
                               \/ status[p] = "pending" /\ status'[p] = "provisioning"
  BY <1>1, <1>2, ZenonT(60) DEF LoopClaim, TypeOK
<1>3. ASSUME NEW o \in Orders, TaskSet(o)
      PROVE  \A p \in Orders : \/ status'[p] = status[p]
                               \/ status[p] \in InFlightStatus /\ status'[p] = "building"
                               \/ status'[p] \in {"failed", "completed"}
  <2>1. status[o] \notin {"completed", "failed", "cancelled"} /\ goal[o] \in Goal
    BY <1>1, <1>3, ZenonT(60) DEF TaskSet, PhaseInv, Undecided, TypeOK
  <2>2. status[o] \in Gone \/ status[o] \in InFlightStatus
    BY <1>1, <2>1, ZenonT(60) DEF TypeOK, Status, TerminalStatus, Gone
  <2>3. StatusOf(goal[o]) \in {"building", "failed", "completed"}
    BY <2>1, Zenon DEF StatusOf, Goal
  <2> QED
    BY <1>1, <1>3, <2>2, <2>3, ZenonT(60) DEF TaskSet, TypeOK
<1>4. ASSUME Evict PROVE \A p \in Orders : status'[p] \in {status[p], "evicted"}
  BY <1>4, Zenon DEF Evict, EvictWorkorders
<1>5. \/ \E o \in Orders : LoopClaim(o) \/ TaskSet(o)
      \/ Evict
      \/ UNCHANGED status
  <2>1. ASSUME NEW p \in Orders, PlainMove(p) PROVE UNCHANGED status
    BY <1>1, <2>1, PlainMoveFrame, Zenon
  <2>2. ASSUME NEW p \in Orders, SubmitNext(p) PROVE UNCHANGED status
    BY <2>2, Zenon DEF SubmitNext, SubmitAdvance, SubmitArrive, SubmitCheck, SubmitConflict,
                SubmitActivate, SubmitCount, SubmitSave, SubmitDrop
  <2>3. ASSUME NEW p \in Orders, CancelNext(p) PROVE UNCHANGED status
    BY <2>3, Zenon DEF CancelNext, CancelAdvance, CancelMark, CancelClear, CancelStop, CancelDrop
  <2>4. ASSUME NEW p \in Orders,
               \/ ContainerExit(p) \/ LoopPick(p) \/ LoopMiss(p) \/ LoopSpawn(p)
               \/ TaskClone(p) \/ TaskWrite(p)
        PROVE  UNCHANGED status
    BY <2>4, Zenon DEF ContainerExit, LoopPick, LoopMiss, LoopSpawn, TaskClone, TaskWrite
  <2>5. ASSUME LoopSleep \/ SaverNext PROVE UNCHANGED status
    BY <2>5, Zenon DEF LoopSleep, vars, SaverNext, SaveResults, SaveClone, SaveWrite
  <2> QED
    BY <2>1, <2>2, <2>3, <2>4, <2>5, ZenonT(60) DEF Next, LoopNext, TaskNext, TaskAdvance, PlainMove
<1>6. \A p \in Orders : \/ status'[p] = status[p]
                        \/ status[p] \in InFlightStatus /\ status'[p] \in InFlightStatus
                        \/ status'[p] \in {"failed", "completed", "evicted"}
  BY <1>2, <1>3, <1>4, <1>5, Zenon DEF InFlightStatus
<1> QED
  BY <1>6, Zenon DEF InFlight, InFlightStatus

\* Only the check of the capacity lets a handler go on to the insertion.
LEMMA LockedAfterCheck ==
  ASSUME TypeOK, Next, NEW o \in Orders, submit'[o] = "locked"
  PROVE  submit[o] = "locked" \/ (HasCapacity /\ status' = status)
<1>1. ASSUME NEW p \in Orders, SubmitNext(p)
      PROVE  submit[o] = "locked" \/ (HasCapacity /\ status' = status)
  BY <1>1, Zenon DEF SubmitNext, SubmitAdvance, SubmitArrive, SubmitCheck, SubmitConflict,
     SubmitInsert, SubmitActivate, SubmitCount, SubmitSave, SubmitDrop, TypeOK
<1>2. ASSUME NEW p \in Orders, PlainMove(p) PROVE UNCHANGED submit
  BY <1>2, PlainMoveFrame, Zenon
<1>3. ASSUME NEW p \in Orders,
             CancelNext(p) \/ LoopNext(p) \/ ContainerExit(p)
             \/ TaskSet(p) \/ TaskClone(p) \/ TaskWrite(p)
      PROVE  UNCHANGED submit
  BY <1>3, Zenon DEF CancelNext, CancelAdvance, CancelMark, CancelClear, CancelStop, CancelDrop,
     LoopNext, LoopPick, LoopClaim, LoopMiss, LoopSpawn, ContainerExit, TaskSet,
     TaskClone, TaskWrite
<1>4. ASSUME LoopSleep \/ SaverNext \/ Evict PROVE UNCHANGED submit
  BY <1>4, Zenon DEF LoopSleep, vars, SaverNext, SaveResults, SaveClone, SaveWrite, Evict,
     EvictWorkorders
<1>5. ~Crash
  BY Zenon DEF Crash
<1> QED
  BY <1>1, <1>2, <1>3, <1>4, <1>5, ZenonT(60) DEF Next, TaskNext, TaskAdvance, PlainMove

\* The limit survives every step: the lock makes check and insertion one, and
\* what a restart loads was within the limit when it was cloned.
LEMMA CapStep == IInv /\ CapInv /\ [Next]_vars => CapInv'
<1> SUFFICES ASSUME IInv, CapInv, [Next]_vars, MaxActive > 0, cancelled' = {}
             PROVE  /\ Within(status') /\ Within(disk')
                    /\ \A w \in Orders \cup {NoOrder} : Within(snap'[w])
                    /\ \A o \in Orders : submit'[o] = "locked"
                                           => Cardinality(InFlight(status')) < MaxActive
  BY Zenon DEF CapInv, Within, InFlight
<1>1. TypeOK /\ ClaimInv /\ SlotInv
  BY Zenon DEF IInv
<1>2. cancelled = {}
  <2>1. cancelled \subseteq cancelled'
    <3>1. ASSUME NEW p \in Orders, PlainMove(p) PROVE UNCHANGED cancelled
      BY <3>1, Zenon DEF PlainMove, TaskSkip, TaskBegin, TaskImage, TaskStage, TaskStart,
         TaskRecord, TaskAttach, TaskPanic, TaskWait, TaskTimeout, TaskWaitError,
         TaskIngest, TaskAnnounce, TaskStore, TaskCleanup, TaskRemove, historyVars
    <3>2. ASSUME NEW p \in Orders, SubmitNext(p) PROVE UNCHANGED cancelled
      BY <3>2, Zenon DEF SubmitNext, SubmitAdvance, SubmitArrive, SubmitCheck, SubmitConflict,
         SubmitInsert, SubmitActivate, SubmitCount, SubmitSave, SubmitDrop, historyVars
    <3>3. ASSUME NEW p \in Orders, CancelNext(p) PROVE cancelled \subseteq cancelled'
      BY <3>3, Zenon DEF CancelNext, CancelAdvance, CancelMark, CancelClear, CancelStop,
         CancelDrop, historyVars
    <3>4. ASSUME NEW p \in Orders,
                 LoopNext(p) \/ ContainerExit(p) \/ TaskSet(p) \/ TaskClone(p) \/ TaskWrite(p)
          PROVE  UNCHANGED cancelled
      BY <3>4, Zenon DEF LoopNext, LoopPick, LoopClaim, LoopMiss, LoopSpawn, ContainerExit,
         TaskSet, TaskClone, TaskWrite, historyVars
    <3>5. ASSUME LoopSleep \/ SaverNext \/ Evict \/ Crash \/ UNCHANGED vars
          PROVE  UNCHANGED cancelled
      BY <3>5, Zenon DEF LoopSleep, vars, SaverNext, SaveResults, SaveClone, SaveWrite, Evict,
         EvictWorkorders, Crash, historyVars
    <3> QED
      BY <3>1, <3>2, <3>3, <3>4, <3>5, ZenonT(60) DEF Next, TaskNext, TaskAdvance, PlainMove
  <2> QED
    BY <2>1, Zenon
<1>3. /\ Within(status) /\ Within(disk)
      /\ \A w \in Orders \cup {NoOrder} : Within(snap[w])
      /\ \A o \in Orders : submit[o] = "locked" => Cardinality(InFlight(status)) < MaxActive
  BY <1>2, Zenon DEF CapInv
<1>4. InFlight(status) \in SUBSET Orders /\ Cardinality(InFlight(status)) \in Nat
  BY CountOrders, Zenon DEF InFlight
<1>5. CASE UNCHANGED vars
  BY <1>3, <1>5, Zenon DEF vars, diskVars
<1>6. CASE Crash
  <2>1. InFlight(status') = InFlight(disk) /\ \A o \in Orders : status'[o] # "cancelled"
    BY <1>3, <1>6, Zenon DEF Crash, load_workorders, InFlight, InFlightStatus, Within
  <2>2. disk' = disk /\ \A w \in Orders \cup {NoOrder} : snap'[w] = Blank
    BY <1>6, Zenon DEF Crash
  <2>3. \A o \in Orders : submit'[o] # "locked"
    BY <1>6, Zenon DEF Crash
  <2> QED
    BY <1>3, <2>1, <2>2, <2>3, BlankWithin, ZenonT(60) DEF Within
<1>7. CASE Next /\ ~Crash
  <2>1. Within(disk') /\ \A w \in Orders \cup {NoOrder} : Within(snap'[w])
    BY <1>1, <1>3, <1>7, DiskFrame, BlankWithin, Zenon
  <2>2. CASE \E o \in Orders : SubmitInsert(o)
    <3> PICK o \in Orders : SubmitInsert(o)
      BY <2>2, Zenon
    <3>1. submit[o] = "locked" /\ status[o] = "absent" /\ o \notin InFlight(status)
      BY <1>1, Zenon DEF SubmitInsert, ClaimInv, Uninserted, Unseen, InFlight, InFlightStatus
    <3>2. /\ InFlight(status') = InFlight(status) \cup {o}
          /\ \A p \in Orders : status'[p] # "cancelled"
      BY <1>1, <1>3, ZenonT(60) DEF SubmitInsert, InFlight, InFlightStatus, TypeOK, Within
    <3>3. IsFiniteSet(InFlight(status))
      BY <1>4, CountOrders, Zenon
    <3>4. Cardinality(InFlight(status')) = Cardinality(InFlight(status)) + 1
      BY <3>1, <3>2, <3>3, FS_AddElement, ZenonT(60)
    <3>5. Within(status')
      BY <1>3, <1>4, <3>1, <3>2, <3>4, CapAssumption, SMTT(30) DEF Within
    <3>6. \A p \in Orders : submit'[p] # "locked"
      BY <1>1, <3>1, ZenonT(60) DEF SubmitInsert, SlotInv, TypeOK
    <3> QED
      BY <2>1, <3>5, <3>6, Zenon
  <2>3. CASE \A o \in Orders : ~SubmitInsert(o)
    <3>1. /\ InFlight(status') \subseteq InFlight(status)
          /\ \A o \in Orders : status'[o] # "cancelled"
      BY <1>3, <1>7, <2>3, FlightShrinks, Zenon DEF Within
    <3>2. /\ Cardinality(InFlight(status')) \in Nat
          /\ Cardinality(InFlight(status')) <= Cardinality(InFlight(status))
      BY <1>4, <3>1, CountOrders, ZenonT(60)
    <3>3. Within(status')
      BY <1>3, <1>4, <3>1, <3>2, CapAssumption, SMTT(40) DEF Within
    <3>4. ASSUME NEW o \in Orders, submit'[o] = "locked"
          PROVE  Cardinality(InFlight(status)) < MaxActive
      BY <1>1, <1>3, <1>7, <3>4, LockedAfterCheck, SMTT(40) DEF HasCapacity
    <3> QED
      BY <1>4, <2>1, <3>2, <3>3, <3>4, CapAssumption, SMTT(30)
  <2> QED
    BY <2>2, <2>3, Zenon
<1> QED
  BY <1>5, <1>6, <1>7, Zenon

\* No interleaving of submissions takes the server past max_active_workorders,
\* nor does a restart from whichever map was written last, until an order is
\* cancelled.
THEOREM CapacityRespectedHolds == Spec => []CapacityRespected
<1>1. CapInv => CapacityRespected
  BY Zenon DEF CapInv, CapacityRespected, Within
<1> QED
  BY <1>1, CapInit, CapStep, Invariance, PTL DEF Spec

=============================================================================
