---------------------------- MODULE Workorders ----------------------------
(***************************************************************************)
(* The life of a workorder inside the remerge server: submission, the      *)
(* queue loop, the build task, cancellation, eviction, the JSON state      *)
(* files, and a server crash followed by a restart.                        *)
(*                                                                         *)
(* An action is the section of a handler or task under one lock, one call  *)
(* to Docker, or one rename of a state file. Sections are joined when no   *)
(* other action reads or writes more than one of the values they change,   *)
(* and a gauge moves with the section before it, since its updates         *)
(* commute.                                                                *)
(*                                                                         *)
(* A definition whose name ends in _<what> is a faulty variant of the one  *)
(* it precedes, with a mistake that code could have; no specification here *)
(* uses it. It shows that a property can tell the mistake.                 *)
(***************************************************************************)
EXTENDS Integers, FiniteSets

CONSTANTS
    NumOrders,     \* bound: how many submissions reach the server
    Clients,       \* the client ids
    ClientOf,      \* the client id each submission carries
    MaxWorkers,    \* max_workers
    MaxActive,     \* max_active_workorders, 0 for no limit
    MaxRetained,   \* max_retained_workorders, 0 for no limit
    BuildTimeout,  \* whether build_timeout_secs is nonzero
    Cancellable,   \* bound: the orders a user may ask to cancel
    Disconnecting, \* bound: the orders whose client may hang up on a request
    Expiring,      \* bound: the orders that can outlive retention_hours
    MaxCrashes,    \* bound: how often the server dies
    PeriodicSave,  \* whether run_periodic_save gets to run
    DiskMayFail,   \* whether writing a state file may fail
    DepthModulus   \* 2^64 in the code: queue_depth is an AtomicU64

\* Ids are numbered by created_at: the queue's age order is the order on ids.
Orders == 1 .. NumOrders

\* active_workorder = None, and the periodic saver's index in snap.
NoOrder == 0

ASSUME BoundAssumption == NumOrders \in Nat /\ MaxCrashes \in Nat
ASSUME ClientAssumption == ClientOf \in [Orders -> Clients]
ASSUME WorkerAssumption == MaxWorkers \in Nat
ASSUME CapAssumption == MaxActive \in Nat /\ MaxRetained \in Nat
ASSUME SwitchAssumption ==
    /\ BuildTimeout \in BOOLEAN
    /\ DiskMayFail \in BOOLEAN
    /\ PeriodicSave \in BOOLEAN
ASSUME RequestAssumption ==
    /\ Cancellable \subseteq Orders
    /\ Disconnecting \subseteq Orders
    /\ Expiring \subseteq Orders
ASSUME DepthAssumption == DepthModulus \in Nat \ {0}

VARIABLES
    submit,      \* where the POST /workorders handler of an order stands
    status,      \* AppState.workorders: the status of each order
    active,      \* ClientState.active_workorder of each client
    progress,    \* orders with an entry in progress_txs
    raw,         \* orders with an entry in raw_output_txs
    results,     \* orders with an entry in results
    cids,        \* orders with an entry in container_ids
    staged,      \* orders with an entry in the staged snapshot references
    permits,     \* free permits of the worker semaphore
    loop,        \* the queue loop: its step and the order it holds
    task,        \* the step of the process_workorder task of each order
    goal,        \* the status the task is writing, and why
    cancel,      \* the DELETE /workorders/{id} handler of an order
    container,   \* Docker's container remerge-worker-<id>
    saver,       \* the step of run_periodic_save
    snap,        \* the map each writer of workorders.json cloned
    disk,        \* workorders.json
    diskResults, \* results.json
    depth,       \* metrics.queue_depth
    building,    \* metrics.builds_active
    announced,   \* orders whose Finished event this process has broadcast
    cancelled,   \* history: orders some cancel request took effect on
    dropped,     \* history: orders with a request whose client hung up
    crashes      \* how often the server died

memVars == <<active, progress, raw, results, cids, staged>>
taskVars == <<permits, loop, task, goal>>
diskVars == <<saver, snap, disk, diskResults>>
gaugeVars == <<depth, building>>
historyVars == <<announced, cancelled, dropped, crashes>>
vars == <<submit, status, memVars, taskVars, cancel, container, diskVars,
          gaugeVars, historyVars>>

-----------------------------------------------------------------------------
InFlightStatus == {"pending", "provisioning", "building"}
TerminalStatus == {"completed", "failed", "cancelled"}

\* "absent": not in the map; "evicted": no longer in it after an eviction.
Gone == {"absent", "evicted"}
Status == InFlightStatus \cup TerminalStatus \cup Gone

SubmitStep == {"new", "arrived", "locked", "inserted", "active", "counted",
               "done", "refused", "lost"}
TaskStep == {"none", "spawned", "image", "set", "clone", "write", "stage",
             "start", "record", "attach", "run", "drain_ok",
             "drain_bad", "announce", "store", "cleanup", "remove", "panicked"}
Goal == {"building", "early", "failed", "completed"}
CancelStep == InFlightStatus \cup {"none", "stop"}
ContainerState == {"none", "running", "exit_ok", "exit_bad"}

Blank == [o \in Orders |-> "absent"]
InFlight(map) == {o \in Orders : map[o] \in InFlightStatus}
Terminal(map) == {o \in Orders : map[o] \in TerminalStatus}
Present(map) == InFlight(map) \cup Terminal(map)

\* A task that holds a permit.
Live == {o \in Orders : task[o] \notin {"none", "panicked"}}

load_workorders_keepsStatus(file) == [o \in Orders |-> file[o]]

\* What load_workorders makes of the file: in-flight orders start over.
load_workorders(file) ==
    [o \in Orders |-> IF file[o] \in InFlightStatus THEN "pending" ELSE file[o]]

Init ==
    /\ submit = [o \in Orders |-> "new"]
    /\ status = Blank
    /\ active = [c \in Clients |-> NoOrder]
    /\ progress = {} /\ raw = {} /\ results = {} /\ cids = {} /\ staged = {}
    /\ permits = MaxWorkers
    /\ loop = [at |-> "look", order |-> NoOrder]
    /\ task = [o \in Orders |-> "none"]
    /\ goal = [o \in Orders |-> "building"]
    /\ cancel = [o \in Orders |-> "none"]
    /\ container = [o \in Orders |-> "none"]
    /\ saver = "idle"
    /\ snap = [w \in Orders \cup {NoOrder} |-> Blank]
    /\ disk = Blank /\ diskResults = {}
    /\ depth = 0 /\ building = 0
    /\ announced = {} /\ cancelled = {} /\ dropped = {} /\ crashes = 0

-----------------------------------------------------------------------------
\* POST /api/v1/workorders

\* The request is validated, authenticated and normalised; id and created_at
\* are drawn before the submission lock is taken.
SubmitArrive(o) ==
    /\ submit[o] = "new"
    /\ \A p \in 1 .. (o - 1) : submit[p] # "new"
    /\ submit' = [submit EXCEPT ![o] = "arrived"]
    /\ UNCHANGED <<status, memVars, taskVars, cancel, container, diskVars,
                   gaugeVars, historyVars>>

SubmissionLockFree_shortScope == \A p \in Orders : submit[p] # "locked"

SubmissionLockFree == \A p \in Orders : submit[p] \notin {"locked", "inserted"}

HasCapacity_offByOne == MaxActive = 0 \/ Cardinality(InFlight(status)) <= MaxActive

HasCapacity == MaxActive = 0 \/ Cardinality(InFlight(status)) < MaxActive

\* submission_lock is taken and the capacity check counts the in-flight orders.
SubmitCheck(o) ==
    /\ submit[o] = "arrived"
    /\ SubmissionLockFree
    /\ submit' = [submit EXCEPT ![o] = IF HasCapacity THEN "locked" ELSE "refused"]
    /\ UNCHANGED <<status, memVars, taskVars, cancel, container, diskVars,
                   gaugeVars, historyVars>>

\* clients.update refuses a client with an active order.
SubmitConflict(o) ==
    /\ submit[o] = "locked"
    /\ active[ClientOf[o]] # NoOrder
    /\ submit' = [submit EXCEPT ![o] = "refused"]
    /\ UNCHANGED <<status, memVars, taskVars, cancel, container, diskVars,
                   gaugeVars, historyVars>>

\* clients.update accepts, the channels are created and the order inserted.
SubmitInsert(o) ==
    /\ submit[o] = "locked"
    /\ active[ClientOf[o]] = NoOrder
    /\ submit' = [submit EXCEPT ![o] = "inserted"]
    /\ status' = [status EXCEPT ![o] = "pending"]
    /\ progress' = progress \cup {o}
    /\ raw' = raw \cup {o}
    /\ UNCHANGED <<active, results, cids, staged, taskVars, cancel, container,
                   diskVars, gaugeVars, historyVars>>

\* set_active_workorder, after which the submission lock is released.
SubmitActivate(o) ==
    /\ submit[o] = "inserted"
    /\ submit' = [submit EXCEPT ![o] = "active"]
    /\ active' = [active EXCEPT ![ClientOf[o]] = o]
    /\ UNCHANGED <<status, progress, raw, results, cids, staged, taskVars,
                   cancel, container, diskVars, gaugeVars, historyVars>>

SubmitCount(o) ==
    /\ submit[o] = "active"
    /\ submit' = [submit EXCEPT ![o] = "counted"]
    /\ depth' = (depth + 1) % DepthModulus
    /\ UNCHANGED <<status, memVars, taskVars, cancel, container, diskVars,
                   building, historyVars>>

\* A rename of workorders.json, or a failed write that is only logged.
WriteDisk(map) == disk' = map \/ (DiskMayFail /\ disk' = disk)

\* The handler saves under the workorders read lock, so what it writes is the
\* map of that moment, and then answers.
SubmitSave(o) ==
    /\ submit[o] = "counted"
    /\ submit' = [submit EXCEPT ![o] = "done"]
    /\ WriteDisk(status)
    /\ UNCHANGED <<status, memVars, taskVars, cancel, container, saver,
                   snap, diskResults, gaugeVars, historyVars>>

\* The client hangs up: the server drops the handler's future where it waits,
\* and with it the submission lock. Nothing done so far is undone.
SubmitDrop(o) ==
    /\ o \in Disconnecting
    /\ submit[o] \in {"arrived", "locked", "inserted", "active", "counted"}
    /\ submit' = [submit EXCEPT ![o] = "lost"]
    /\ dropped' = dropped \cup {o}
    /\ UNCHANGED <<status, memVars, taskVars, cancel, container, diskVars,
                   gaugeVars, announced, cancelled, crashes>>

-----------------------------------------------------------------------------
\* DELETE /api/v1/workorders/{id}

CancelMark_anyStatus(o) ==
    /\ o \in Cancellable
    /\ cancel[o] = "none"
    /\ status[o] \notin Gone
    /\ status' = [status EXCEPT ![o] = "cancelled"]
    /\ cancel' = [cancel EXCEPT ![o] = IF status[o] \in InFlightStatus
                                       THEN status[o] ELSE "provisioning"]
    /\ cancelled' = cancelled \cup {o}
    /\ UNCHANGED <<submit, memVars, taskVars, container, diskVars, gaugeVars,
                   announced, dropped, crashes>>

\* Under the workorders write lock an in-flight order becomes cancelled;
\* neither updated_at nor the state file changes.
CancelMark(o) ==
    /\ o \in Cancellable
    /\ cancel[o] = "none"
    /\ status[o] \in InFlightStatus
    /\ status' = [status EXCEPT ![o] = "cancelled"]
    /\ cancel' = [cancel EXCEPT ![o] = status[o]]
    /\ cancelled' = cancelled \cup {o}
    /\ UNCHANGED <<submit, memVars, taskVars, container, diskVars, gaugeVars,
                   announced, dropped, crashes>>

CancelClear_alwaysDiscounts(o) ==
    /\ cancel[o] \in InFlightStatus
    /\ active' = [active EXCEPT ![ClientOf[o]] = NoOrder]
    /\ depth' = (depth - 1) % DepthModulus
    /\ cancel' = [cancel EXCEPT ![o] = IF @ = "building" THEN "stop" ELSE "none"]
    /\ UNCHANGED <<submit, status, progress, raw, results, cids, staged,
                   taskVars, container, diskVars, building, historyVars>>

\* clear_active_workorder empties the client's slot, whatever order it holds.
CancelClear(o) ==
    /\ cancel[o] \in InFlightStatus
    /\ active' = [active EXCEPT ![ClientOf[o]] = NoOrder]
    /\ depth' = IF cancel[o] = "pending" THEN (depth - 1) % DepthModulus
                                         ELSE depth
    /\ cancel' = [cancel EXCEPT ![o] = IF @ = "building" THEN "stop" ELSE "none"]
    /\ UNCHANGED <<submit, status, progress, raw, results, cids, staged,
                   taskVars, container, diskVars, building, historyVars>>

\* docker.stop_container: a running container is stopped, or the call fails.
StopContainer(o) ==
    \/ container' = container
    \/ /\ container[o] = "running"
       /\ container' = [container EXCEPT ![o] = "exit_bad"]

\* The container of an order that was building is stopped if it is known.
CancelStop(o) ==
    /\ cancel[o] = "stop"
    /\ cancel' = [cancel EXCEPT ![o] = "none"]
    /\ IF o \in cids THEN StopContainer(o) ELSE container' = container
    /\ UNCHANGED <<submit, status, memVars, taskVars, diskVars, gaugeVars,
                   historyVars>>

\* The client hangs up and the rest of the handler does not happen.
CancelDrop(o) ==
    /\ o \in Disconnecting
    /\ cancel[o] # "none"
    /\ cancel' = [cancel EXCEPT ![o] = "none"]
    /\ dropped' = dropped \cup {o}
    /\ UNCHANGED <<submit, status, memVars, taskVars, container, diskVars,
                   gaugeVars, announced, cancelled, crashes>>

-----------------------------------------------------------------------------
\* process_queue

\* The oldest pending order is read and cloned under the read lock.
LoopPick(o) ==
    /\ loop.at = "look"
    /\ status[o] = "pending"
    /\ \A p \in Orders : status[p] = "pending" => o <= p
    /\ loop' = [at |-> "picked", order |-> o]
    /\ UNCHANGED <<submit, status, memVars, permits, task, goal, cancel,
                   container, diskVars, gaugeVars, historyVars>>

\* With nothing pending the loop sleeps.
LoopSleep ==
    /\ loop.at = "look"
    /\ \A o \in Orders : status[o] # "pending"
    /\ UNCHANGED vars

LoopClaim_keepsPending(o) ==
    /\ loop.at = "picked" /\ loop.order = o
    /\ status[o] = "pending"
    /\ status' = status
    /\ depth' = (depth - 1) % DepthModulus
    /\ loop' = [at |-> "claimed", order |-> o]
    /\ UNCHANGED <<submit, memVars, permits, task, goal, cancel, container,
                   diskVars, building, historyVars>>

LoopClaim_unchecked(o) ==
    /\ loop.at = "picked" /\ loop.order = o
    /\ status' = [status EXCEPT ![o] = "provisioning"]
    /\ depth' = (depth - 1) % DepthModulus
    /\ loop' = [at |-> "claimed", order |-> o]
    /\ UNCHANGED <<submit, memVars, permits, task, goal, cancel, container,
                   diskVars, building, historyVars>>

\* Under the write lock the order is claimed if it is still pending.
LoopClaim(o) ==
    /\ loop.at = "picked" /\ loop.order = o
    /\ status[o] = "pending"
    /\ status' = [status EXCEPT ![o] = "provisioning"]
    /\ depth' = (depth - 1) % DepthModulus
    /\ loop' = [at |-> "claimed", order |-> o]
    /\ UNCHANGED <<submit, memVars, permits, task, goal, cancel, container,
                   diskVars, building, historyVars>>

\* Otherwise the loop looks again.
LoopMiss(o) ==
    /\ loop.at = "picked" /\ loop.order = o
    /\ status[o] # "pending"
    /\ loop' = [at |-> "look", order |-> NoOrder]
    /\ UNCHANGED <<submit, status, memVars, permits, task, goal, cancel,
                   container, diskVars, gaugeVars, historyVars>>

\* A permit is acquired and the build task spawned with it.
LoopSpawn(o) ==
    /\ loop.at = "claimed" /\ loop.order = o
    /\ permits > 0
    /\ permits' = permits - 1
    /\ task' = [task EXCEPT ![o] = "spawned"]
    /\ loop' = [at |-> "look", order |-> NoOrder]
    /\ UNCHANGED <<submit, status, memVars, goal, cancel, container, diskVars,
                   gaugeVars, historyVars>>

-----------------------------------------------------------------------------
\* process_workorder

Goto(o, step) == task' = [task EXCEPT ![o] = step]
Aim(o, what) == Goto(o, "set") /\ goal' = [goal EXCEPT ![o] = what]

\* The task ends and its permit goes back to the semaphore.
Release(o, step) == Goto(o, step) /\ permits' = permits + 1

TaskSkip_leaksPermit(o) ==
    /\ task[o] = "spawned"
    /\ o \notin progress
    /\ Goto(o, "none") /\ permits' = permits
    /\ UNCHANGED <<submit, status, memVars, loop, goal, cancel, container,
                   diskVars, gaugeVars, historyVars>>

\* Without a progress channel the task ends at once, with no cleanup.
TaskSkip(o) ==
    /\ task[o] = "spawned"
    /\ o \notin progress
    /\ Release(o, "none")
    /\ UNCHANGED <<submit, status, memVars, loop, goal, cancel, container,
                   diskVars, gaugeVars, historyVars>>

TaskBegin(o) ==
    /\ task[o] = "spawned"
    /\ o \in progress
    /\ Goto(o, "image")
    /\ building' = building + 1
    /\ UNCHANGED <<submit, status, memVars, permits, loop, goal, cancel,
                   container, diskVars, depth, historyVars>>

\* The worker image is there or gets built, or building it fails.
TaskImage(o) ==
    /\ task[o] = "image"
    /\ Aim(o, "building") \/ Aim(o, "early")
    /\ UNCHANGED <<submit, status, memVars, permits, loop, cancel, container,
                   diskVars, gaugeVars, historyVars>>

AfterStatus(what) ==
    CASE what = "building" -> "stage"
      [] what = "early" -> "announce"
      [] OTHER -> "store"

StatusOf(what) == IF what = "early" THEN "failed" ELSE what

\* set_workorder_status overwrites the status of an order that is in the map;
\* for one that is not it returns without a save.
TaskSet(o) ==
    /\ task[o] = "set"
    /\ IF status[o] \in Gone
       THEN Goto(o, AfterStatus(goal[o])) /\ status' = status
       ELSE Goto(o, "clone") /\ status' = [status EXCEPT ![o] = StatusOf(goal[o])]
    /\ UNCHANGED <<submit, memVars, permits, loop, goal, cancel, container,
                   diskVars, gaugeVars, historyVars>>

\* The map is cloned under the read lock ...
TaskClone(o) ==
    /\ task[o] = "clone"
    /\ Goto(o, "write")
    /\ snap' = [snap EXCEPT ![o] = status]
    /\ UNCHANGED <<submit, status, memVars, permits, loop, goal, cancel,
                   container, saver, disk, diskResults, gaugeVars, historyVars>>

\* ... and written after the lock is released.
TaskWrite(o) ==
    /\ task[o] = "write"
    /\ Goto(o, AfterStatus(goal[o]))
    /\ WriteDisk(snap[o])
    /\ snap' = [snap EXCEPT ![o] = Blank]
    /\ UNCHANGED <<submit, status, memVars, permits, loop, goal, cancel,
                   container, saver, diskResults, gaugeVars, historyVars>>

\* stage_workorder_runtime, with the snapshot references tracked only once
\* staging is over.
TaskStage(o) ==
    /\ task[o] = "stage"
    /\ \/ Goto(o, "start") /\ goal' = goal /\ staged' = staged \cup {o}
       \/ Aim(o, "early") /\ staged' = staged
    /\ UNCHANGED <<submit, status, active, progress, raw, results, cids,
                   permits, loop, cancel, container, diskVars, gaugeVars,
                   historyVars>>

\* start_worker: Docker refuses a name that exists, and a container that is
\* created but cannot be started is removed again, unless that fails too.
TaskStart(o) ==
    /\ task[o] = "start"
    /\ \/ /\ container[o] = "none"
          /\ container' = [container EXCEPT ![o] = "running"]
          /\ Goto(o, "record") /\ goal' = goal
       \/ container' = container /\ Aim(o, "early")
       \/ /\ container[o] = "none"
          /\ container' = [container EXCEPT ![o] = "exit_bad"]
          /\ Aim(o, "early")
    /\ UNCHANGED <<submit, status, memVars, permits, loop, cancel, diskVars,
                   gaugeVars, historyVars>>

TaskRecord(o) ==
    /\ task[o] = "record"
    /\ Goto(o, "attach")
    /\ cids' = cids \cup {o}
    /\ UNCHANGED <<submit, status, active, progress, raw, results, staged,
                   permits, loop, goal, cancel, container, diskVars,
                   gaugeVars, historyVars>>

TaskAttach(o) ==
    /\ task[o] = "attach"
    /\ o \in raw
    /\ Goto(o, "run")
    /\ UNCHANGED <<submit, status, memVars, permits, loop, goal, cancel,
                   container, diskVars, gaugeVars, historyVars>>

\* raw_output_txs has no entry: expect() unwinds the task, which drops its
\* permit and nothing else.
TaskPanic(o) ==
    /\ task[o] = "attach"
    /\ o \notin raw
    /\ Release(o, "panicked")
    /\ UNCHANGED <<submit, status, memVars, loop, goal, cancel, container,
                   diskVars, gaugeVars, historyVars>>

\* wait_container returns; the raw channel is dropped before any Finished.
TaskWait(o) ==
    /\ task[o] = "run"
    /\ container[o] \in {"exit_ok", "exit_bad"}
    /\ Goto(o, IF container[o] = "exit_ok" THEN "drain_ok" ELSE "drain_bad")
    /\ raw' = raw \ {o}
    /\ UNCHANGED <<submit, status, active, progress, results, cids, staged,
                   permits, loop, goal, cancel, container, diskVars,
                   gaugeVars, historyVars>>

TaskTimeout_afterExit(o) ==
    /\ task[o] = "run"
    /\ BuildTimeout
    /\ container[o] # "running"
    /\ StopContainer(o)
    /\ Goto(o, "drain_bad")
    /\ raw' = raw \ {o}
    /\ UNCHANGED <<submit, status, active, progress, results, cids, staged,
                   permits, loop, goal, cancel, diskVars, gaugeVars,
                   historyVars>>

\* build_timeout_secs passes before the answer of wait_container is there and
\* the container is told to stop, even one that has just exited.
TaskTimeout(o) ==
    /\ task[o] = "run"
    /\ BuildTimeout
    /\ StopContainer(o)
    /\ Goto(o, "drain_bad")
    /\ raw' = raw \ {o}
    /\ UNCHANGED <<submit, status, active, progress, results, cids, staged,
                   permits, loop, goal, cancel, diskVars, gaugeVars,
                   historyVars>>

\* The wait call itself fails; the container is left as it is.
TaskWaitError(o) ==
    /\ task[o] = "run"
    /\ Goto(o, "drain_bad")
    /\ raw' = raw \ {o}
    /\ UNCHANGED <<submit, status, active, progress, results, cids, staged,
                   permits, loop, goal, cancel, container, diskVars,
                   gaugeVars, historyVars>>

\* Parity files and distfiles are ingested; an error there fails the order,
\* otherwise the exit code decides.
TaskIngest(o) ==
    /\ task[o] \in {"drain_ok", "drain_bad"}
    /\ \/ task[o] = "drain_ok" /\ Aim(o, "completed")
       \/ Aim(o, "failed")
    /\ UNCHANGED <<submit, status, memVars, permits, loop, cancel, container,
                   diskVars, gaugeVars, historyVars>>

\* Finished is broadcast: the last event of the late paths, but ahead of the
\* result on the paths that fail before the container runs.
TaskAnnounce(o) ==
    /\ task[o] = "announce"
    /\ announced' = announced \cup {o}
    /\ IF goal[o] = "early"
       THEN Goto(o, "store") /\ building' = building
       ELSE Goto(o, "cleanup") /\ building' = building - 1
    /\ UNCHANGED <<submit, status, memVars, permits, loop, goal, cancel,
                   container, diskVars, depth, cancelled, dropped, crashes>>

TaskStore(o) ==
    /\ task[o] = "store"
    /\ results' = results \cup {o}
    /\ IF goal[o] = "early"
       THEN Goto(o, "cleanup") /\ building' = building - 1
       ELSE Goto(o, "announce") /\ building' = building
    /\ UNCHANGED <<submit, status, active, progress, raw, cids, staged,
                   permits, loop, goal, cancel, container, diskVars, depth,
                   historyVars>>

TaskCleanup_keepsReferences(o) ==
    /\ task[o] = "cleanup"
    /\ Goto(o, "remove")
    /\ cids' = cids \ {o}
    /\ staged' = staged
    /\ progress' = progress \ {o}
    /\ raw' = raw \ {o}
    /\ active' = [active EXCEPT ![ClientOf[o]] = NoOrder]
    /\ UNCHANGED <<submit, status, results, permits, loop, goal, cancel,
                   container, diskVars, gaugeVars, historyVars>>

\* cleanup_workorder_runtime: the maps and the client's slot are cleared ...
TaskCleanup(o) ==
    /\ task[o] = "cleanup"
    /\ Goto(o, "remove")
    /\ cids' = cids \ {o}
    /\ staged' = staged \ {o}
    /\ progress' = progress \ {o}
    /\ raw' = raw \ {o}
    /\ active' = [active EXCEPT ![ClientOf[o]] = NoOrder]
    /\ UNCHANGED <<submit, status, results, permits, loop, goal, cancel,
                   container, diskVars, gaugeVars, historyVars>>

TaskRemove_leaksPermit(o) ==
    /\ task[o] = "remove"
    /\ Goto(o, "none") /\ permits' = permits
    /\ \/ container' = container
       \/ /\ goal[o] # "early"
          /\ container' = [container EXCEPT ![o] = "none"]
    /\ goal' = [goal EXCEPT ![o] = "building"]
    /\ UNCHANGED <<submit, status, memVars, loop, cancel, diskVars, gaugeVars,
                   historyVars>>

\* ... then the container the task started is removed, or removal fails.
TaskRemove(o) ==
    /\ task[o] = "remove"
    /\ Release(o, "none")
    /\ \/ container' = container
       \/ /\ goal[o] # "early"
          /\ container' = [container EXCEPT ![o] = "none"]
    /\ goal' = [goal EXCEPT ![o] = "building"]
    /\ UNCHANGED <<submit, status, memVars, loop, cancel, diskVars, gaugeVars,
                   historyVars>>

\* Docker: the worker process ends by itself.
ContainerExit(o) ==
    /\ container[o] = "running"
    /\ \E code \in {"exit_ok", "exit_bad"} :
          container' = [container EXCEPT ![o] = code]
    /\ UNCHANGED <<submit, status, memVars, taskVars, cancel, diskVars,
                   gaugeVars, historyVars>>

-----------------------------------------------------------------------------
\* Background tasks, crash and restart

\* evict_workorders holds every lock: first the terminal orders past the
\* cutoff, then as many more as the map exceeds the cap by.
EvictWorkorders(stale, extra) ==
    LET left == Present(status) \ stale
        excess == IF MaxRetained > 0 /\ Cardinality(left) > MaxRetained
                  THEN Cardinality(left) - MaxRetained ELSE 0
        terminal == Terminal(status) \ stale
        gone == stale \cup extra
    IN  /\ stale \subseteq Terminal(status) \cap Expiring
        /\ extra \subseteq terminal
        /\ \/ Cardinality(extra) = excess
           \/ Cardinality(extra) < excess /\ extra = terminal
        /\ gone # {}
        /\ status' = [o \in Orders |-> IF o \in gone THEN "evicted" ELSE status[o]]
        /\ results' = results \ gone
        /\ progress' = progress \ gone
        /\ raw' = raw \ gone
        /\ cids' = cids \ gone
        /\ UNCHANGED <<submit, active, staged, taskVars, cancel, container,
                       diskVars, gaugeVars, historyVars>>

Evict == \E stale, extra \in SUBSET Orders : EvictWorkorders(stale, extra)

\* run_periodic_save: results.json, which nothing else writes ...
SaveResults ==
    /\ saver = "idle"
    /\ PeriodicSave
    /\ saver' = "results"
    /\ diskResults' = results \/ (DiskMayFail /\ diskResults' = diskResults)
    /\ UNCHANGED <<submit, status, memVars, taskVars, cancel, container, snap,
                   disk, gaugeVars, historyVars>>

\* ... then a clone of the workorders map ...
SaveClone ==
    /\ saver = "results"
    /\ saver' = "write"
    /\ snap' = [snap EXCEPT ![NoOrder] = status]
    /\ UNCHANGED <<submit, status, memVars, taskVars, cancel, container,
                   disk, diskResults, gaugeVars, historyVars>>

SaveWrite_skipsWorkorders ==
    /\ saver = "write"
    /\ saver' = "idle"
    /\ disk' = disk
    /\ snap' = [snap EXCEPT ![NoOrder] = Blank]
    /\ UNCHANGED <<submit, status, memVars, taskVars, cancel, container,
                   diskResults, gaugeVars, historyVars>>

\* ... which is written without the lock.
SaveWrite ==
    /\ saver = "write"
    /\ saver' = "idle"
    /\ WriteDisk(snap[NoOrder])
    /\ snap' = [snap EXCEPT ![NoOrder] = Blank]
    /\ UNCHANGED <<submit, status, memVars, taskVars, cancel, container,
                   diskResults, gaugeVars, historyVars>>

\* The process dies and AppState::new loads the state files. Handlers and
\* tasks are gone, containers are not.
Crash ==
    /\ crashes < MaxCrashes
    /\ crashes' = crashes + 1
    /\ status' = load_workorders(disk)
    /\ results' = diskResults
    /\ active' = [c \in Clients |-> NoOrder]
    /\ progress' = InFlight(disk) /\ raw' = InFlight(disk)
    /\ cids' = {} /\ staged' = {}
    /\ permits' = MaxWorkers
    /\ loop' = [at |-> "look", order |-> NoOrder]
    /\ task' = [o \in Orders |-> "none"]
    /\ goal' = [o \in Orders |-> "building"]
    /\ cancel' = [o \in Orders |-> "none"]
    /\ saver' = "idle"
    /\ snap' = [w \in Orders \cup {NoOrder} |-> Blank]
    /\ depth' = 0 /\ building' = 0
    /\ submit' = [o \in Orders |-> IF submit[o] \in {"new", "done", "refused"}
                                   THEN submit[o] ELSE "lost"]
    /\ announced' = {}
    /\ UNCHANGED <<container, disk, diskResults, cancelled, dropped>>

-----------------------------------------------------------------------------
\* What a handler does as long as its client stays connected.
SubmitAdvance(o) ==
    \/ SubmitCheck(o) \/ SubmitConflict(o) \/ SubmitInsert(o)
    \/ SubmitActivate(o) \/ SubmitCount(o) \/ SubmitSave(o)

SubmitNext(o) == SubmitArrive(o) \/ SubmitAdvance(o) \/ SubmitDrop(o)

CancelAdvance(o) == CancelClear(o) \/ CancelStop(o)

CancelNext(o) == CancelMark(o) \/ CancelAdvance(o) \/ CancelDrop(o)

LoopNext(o) == LoopPick(o) \/ LoopClaim(o) \/ LoopMiss(o) \/ LoopSpawn(o)

\* What a task does without an error of the wait call.
TaskAdvance(o) ==
    \/ TaskSkip(o) \/ TaskBegin(o) \/ TaskImage(o)
    \/ TaskSet(o) \/ TaskClone(o) \/ TaskWrite(o)
    \/ TaskStage(o) \/ TaskStart(o) \/ TaskRecord(o)
    \/ TaskAttach(o) \/ TaskPanic(o)
    \/ TaskWait(o) \/ TaskTimeout(o) \/ TaskIngest(o)
    \/ TaskAnnounce(o) \/ TaskStore(o) \/ TaskCleanup(o) \/ TaskRemove(o)

TaskNext(o) == TaskAdvance(o) \/ TaskWaitError(o)

SaverNext == SaveResults \/ SaveClone \/ SaveWrite

Next ==
    \/ \E o \in Orders : SubmitNext(o) \/ CancelNext(o) \/ LoopNext(o)
                         \/ TaskNext(o) \/ ContainerExit(o)
    \/ LoopSleep
    \/ SaverNext
    \/ Evict
    \/ Crash

Spec == Init /\ [][Next]_vars

\* The periodic save of the workorders is written.
SaveSucceeds == SaveWrite /\ disk' = snap[NoOrder]

\* A spawned task, an accepted request and the background tasks go on; a
\* container runs for as long as it likes, but build_timeout_secs passes; and
\* the disk does not fail every save there is.
Fairness ==
    /\ \A o \in Orders :
          /\ WF_vars(SubmitAdvance(o)) /\ WF_vars(CancelAdvance(o))
          /\ WF_vars(LoopNext(o)) /\ WF_vars(TaskAdvance(o))
    /\ WF_vars(SaverNext) /\ SF_vars(SaveSucceeds)

FairSpec == Spec /\ Fairness

-----------------------------------------------------------------------------
\* Properties

\* The range of every variable.
TypeOK ==
    /\ submit \in [Orders -> SubmitStep]
    /\ status \in [Orders -> Status]
    /\ active \in [Clients -> Orders \cup {NoOrder}]
    /\ progress \subseteq Orders /\ raw \subseteq Orders
    /\ results \subseteq Orders /\ cids \subseteq Orders
    /\ staged \subseteq Orders
    /\ permits \in Nat
    /\ loop \in [at : {"look", "picked", "claimed"}, order : Orders \cup {NoOrder}]
    /\ task \in [Orders -> TaskStep]
    /\ goal \in [Orders -> Goal]
    /\ cancel \in [Orders -> CancelStep]
    /\ container \in [Orders -> ContainerState]
    /\ saver \in {"idle", "results", "write"}
    /\ snap \in [Orders \cup {NoOrder} -> [Orders -> Status]]
    /\ disk \in [Orders -> Status]
    /\ diskResults \subseteq Orders
    /\ depth \in 0 .. (DepthModulus - 1)
    /\ building \in Int
    /\ announced \subseteq Orders /\ cancelled \subseteq Orders
    /\ dropped \subseteq Orders
    /\ crashes \in 0 .. MaxCrashes

\* An order is built by one task: while it is pending no task works on it and
\* the queue loop has not claimed it, so the claim under the write lock in
\* process_queue cannot hand the same order out twice.
ClaimedOnce ==
    \A o \in Orders : status[o] = "pending" =>
        task[o] = "none" /\ ~(loop.at = "claimed" /\ loop.order = o)

\* The semaphore neither leaks nor invents permits: the free ones and the
\* ones held by running tasks add up to max_workers on every way out of
\* process_workorder, early returns and the unwinding panic included.
PermitsConserved == permits + Cardinality(Live) = MaxWorkers

\* Within one server lifetime start_worker never meets a container of the
\* same name: only an order that was built before could leave one behind.
FreshContainerName ==
    \A o \in Orders : crashes = 0 /\ task[o] = "start" => container[o] = "none"

\* metrics.queue_depth is the number of pending orders, up to the requests
\* that have changed the map and not yet the gauge, as long as no handler is
\* dropped in between.
QueueDepthExact ==
    LET pending == {o \in Orders : status[o] = "pending"}
        uncounted == {o \in Orders : submit[o] \in {"inserted", "active"}}
        undiscounted == {o \in Orders : cancel[o] = "pending"}
    IN  crashes = 0 /\ dropped = {} =>
          depth = (Cardinality(pending) + Cardinality(undiscounted)
                     - Cardinality(uncounted)) % DepthModulus

\* metrics.builds_active counts the tasks between their start and their
\* Finished event; a task that panics stays counted.
BuildsActiveExact ==
    building = Cardinality({o \in Orders :
                  task[o] \notin {"none", "spawned", "cleanup", "remove"}})

\* The orders of a client that are in flight.
Open(c) == {o \in Orders : ClientOf[o] = c /\ status[o] \in InFlightStatus}

\* The client has neither cancelled an order nor hung up on a request, and the
\* server has not restarted.
Quiet(c) == crashes = 0 /\ \A o \in cancelled \cup dropped : ClientOf[o] # c

\* One active order per client id, for clients that did not cancel or hang up
\* and while the server does not restart: the active_workorder slot, set after the
\* order is in the map and cleared by cleanup, never lets a second one in.
QuietClientOneActive ==
    \A c \in Clients : Quiet(c) => \A o, p \in Open(c) : o = p

\* max_active_workorders bounds the orders in flight, restarts included, as
\* long as no order was cancelled: a state file is the map of some earlier
\* moment, so loading a stale one cannot exceed the limit either.
CapacityRespected ==
    MaxActive > 0 /\ cancelled = {} => Cardinality(InFlight(status)) <= MaxActive

\* On the paths that ran a container the result is stored before Finished is
\* broadcast, unless an eviction removed the order in between.
LateFinishedHasResult ==
    \A o \in Orders : task[o] = "announce" /\ goal[o] # "early" =>
        o \in results \/ status[o] \in Gone

\* workorders.json never claims a completion that the server has not seen:
\* whatever snapshot was written last, a completed order in the file is
\* completed in memory or was evicted.
NoPhantomCompletion ==
    \A o \in Orders : disk[o] = "completed" => status[o] \in {"completed", "evicted"}

\* A container id or a staged snapshot reference outlives the task that recorded it
\* in one case only: the expect() of process_workorder panicked and so skipped
\* cleanup_workorder_runtime, because the order was cancelled and then evicted while
\* its task was staging or starting the container. Every other way out cleans up.
LeakOnlyByPanic ==
    \A o \in staged \cup cids :
        \/ o \in Live
        \/ task[o] = "panicked" /\ o \in cancelled /\ status[o] = "evicted"

\* Within one server lifetime a build outcome is never overwritten, and an
\* evicted order is not brought back by a task that is still running.
OutcomeIsFinal ==
    [][\A o \in Orders : crashes' = crashes /\ status[o] \in {"completed", "failed", "evicted"}
          => status'[o] \in {status[o], "evicted"}]_vars

\* Every order that got into the queue is eventually settled, given that
\* builds time out and the server stops crashing.
EveryOrderSettles ==
    \A o \in Orders : status[o] \in InFlightStatus ~> status[o] \notin InFlightStatus

\* However the writers of workorders.json overtake one another and whichever
\* of them fail, the file ends up equal to the map once the map no longer
\* changes.
DiskCatchesUp == <>[](disk = status)

\* The queue loop, the tasks and the state file as a pool of workers.
Pool ==
    INSTANCE WorkerPool WITH
        Jobs <- Orders,
        Workers <- MaxWorkers,
        queue <- {o \in Orders : status[o] = "pending"},
        left <- {o \in Orders : status[o] \notin {"absent", "pending"}},
        held <- IF loop.at = "claimed" THEN {loop.order} ELSE {},
        working <- Live,
        decided <- {o \in Orders : status[o] \in {"completed", "failed"}}

\* process_queue, process_workorder, cancel_workorder, evict_workorders and the
\* restart together are a pool of max_workers workers: an order enters the queue
\* once, leaves it once, is worked on by one task, which alone decides its outcome
\* and does so once, whatever is cancelled or evicted meanwhile.
ImplementsPool == Pool!Spec

\* "raw_output_tx must exist - created alongside progress channel": the
\* expect() in process_workorder. The code does not keep this: an eviction can
\* remove both channels of an order that was cancelled while its task was
\* staging or starting, and the task then panics.
RawChannelExists == \A o \in Orders : task[o] = "attach" => o \in raw

=============================================================================
