---------------------------- MODULE WorkerPool ----------------------------
(***************************************************************************)
(* What the queue of the server promises, without its locks, its maps and  *)
(* its tasks: a pool of workers with one dispatcher.  A job is queued at   *)
(* most once, leaves the queue once, is worked on by one worker, and gets  *)
(* at most one outcome from the worker that has it.  Only a restart, which *)
(* ends all work, can undo any of this.                                    *)
(***************************************************************************)
EXTENDS FiniteSets, Naturals

CONSTANTS Jobs, Workers

VARIABLES
    queue,    \* jobs that wait
    left,     \* jobs that have left the queue
    held,     \* the job the dispatcher has taken and no worker has yet
    working,  \* jobs some worker has
    decided   \* jobs whose outcome is known

pvars == <<queue, left, held, working, decided>>

Init == queue = {} /\ left = {} /\ held = {} /\ working = {} /\ decided = {}

Enqueue(j) ==
    /\ j \notin queue \cup left
    /\ queue' = queue \cup {j}
    /\ UNCHANGED <<left, held, working, decided>>

\* A queued job is cancelled.
Withdraw(j) ==
    /\ j \in queue
    /\ queue' = queue \ {j}
    /\ left' = left \cup {j}
    /\ UNCHANGED <<held, working, decided>>

\* The dispatcher takes a job, one at a time ...
Take(j) ==
    /\ j \in queue /\ held = {}
    /\ queue' = queue \ {j}
    /\ left' = left \cup {j}
    /\ held' = {j}
    /\ UNCHANGED <<working, decided>>

\* ... and waits for a free worker.
Start(j) ==
    /\ held = {j} /\ j \notin working
    /\ Cardinality(working) < Workers
    /\ held' = {}
    /\ working' = working \cup {j}
    /\ UNCHANGED <<queue, left, decided>>

Decide(j) ==
    /\ j \in working \ decided
    /\ decided' = decided \cup {j}
    /\ UNCHANGED <<queue, left, held, working>>

\* The worker is free again, also if it found no outcome.
Finish(j) ==
    /\ j \in working
    /\ working' = working \ {j}
    /\ UNCHANGED <<queue, left, held, decided>>

\* Old outcomes are forgotten.
Forget ==
    /\ decided' \subseteq decided
    /\ UNCHANGED <<queue, left, held, working>>

\* What is queued and what is not is read back from a file.
Restart ==
    /\ queue' \cup left' \subseteq Jobs
    /\ queue' \cap left' = {}
    /\ decided' \subseteq left'
    /\ held' = {} /\ working' = {}

Next ==
    \/ \E j \in Jobs : \/ Enqueue(j) \/ Withdraw(j) \/ Take(j) \/ Start(j)
                       \/ Decide(j) \/ Finish(j)
    \/ Forget
    \/ Restart

Spec == Init /\ [][Next]_pvars

=============================================================================
